---- MODULE Spec2Model ----
(***************************************************************************)
(* Token lifecycle and authenticated-request core of the id-sdk            *)
(* Connection class (src/src/connection.ts): ensureToken, requestToken and *)
(* request, driven by public operations that may be in flight             *)
(* concurrently on the same connection.                                    *)
(*                                                                         *)
(* Time is Date.now() in milliseconds.  A token value is the serial number *)
(* of the token-endpoint response that issued it, so two acquisitions      *)
(* on a connection never yield the same value; 0 stands for null (both   *)
(* are falsy).                                                             *)
(***************************************************************************)
EXTENDS Integers, Sequences, FiniteSets, TLC

\* ---------------------------------------------------------------- bounds
MaxOps == 2        \* operations started in one behaviour
MaxTicks == 2      \* clock advances in one behaviour
Tick == 60000      \* milliseconds per clock advance

\* Logical callers that may have an operation in flight at the same time
Procs == {1, 2}
\* Connection objects
Conns == {1, 2}
\* The connection the callers of Spec share
SharedConns == {1}

\* ------------------------------------------------------- program constants
BUFFER_TIME_MS == 60000
NULL == 0

\* ------------------------------------------------------------ environment
\* The public methods that only call request() with an endpoint and a
\* method; createCredentialsRequest stands for all of them.
RequestOps == {"createCredentialsRequest"}
\* Status codes the token endpoint and the API may answer with.
TokenStatuses == {200, 401, 403, 500}
ApiStatuses == {200, 204, 401, 403, 404, 500}
\* Body texts a failing server may answer with.
ErrorTexts == {"oops", "down"}
\* expires_in (seconds) values the token endpoint may return.
ExpiresInValues == {120, 240}
\* The body text that goes with a status: a success has a JSON body unless
\* it is a 204 or has zero content-length, a 401/403 and a 404 have a fixed
\* text and a 500 any of the error texts.
TextsOf(status, cl0) ==
    IF status = 204 \/ cl0 THEN {""}
    ELSE IF status = 200 THEN {"json"}
    ELSE IF status = 401 \/ status = 403 THEN {"denied"}
    ELSE IF status = 404 THEN {"missing"}
    ELSE ErrorTexts

\* An API response: its status, whether it carries content-length "0"
\* (which only a 200 without a body does) and its body text.
Responses ==
    {r \in [status : ApiStatuses, cl0 : BOOLEAN,
            text : {"", "json", "denied", "missing"} \cup ErrorTexts] :
        /\ r.cl0 => r.status = 200
        /\ r.text \in TextsOf(r.status, r.cl0)}

\* A response of the token endpoint.
TokenResponses ==
    {r \in [status : TokenStatuses, text : {"json", "denied"} \cup ErrorTexts] :
        r.text \in TextsOf(r.status, FALSE)}

\* response.ok
Ok(status) == status >= 200 /\ status <= 299

\* 401 or 403
IsAuthStatus(status) == status = 401 \/ status = 403

\* response.text(): the body of a response; a 204 and a zero
\* content-length have none.
BodyOf(r) == r.text

\* ERROR_MESSAGES
INVALID_CLIENT_CREDENTIALS == "Invalid client credentials"
AUTHENTICATION_FAILED == "Authentication failed"
TOKEN_NOT_FOUND == "Token not found or expired"
MAX_BATCH_REQUESTS == "Maximum 100 requests per batch"
FAILED_TO_OBTAIN_TOKEN == "Failed to obtain access token"
API_REQUEST_FAILED == "API request failed"
FAILED_TO_CHECK_VERIFICATION == "Failed to check verification status"

\* ------------------------------------------------------------- outcomes
\* An error message is the sequence of the texts it is made of.
NoOutcome == [kind |-> "pending", value |-> "", statusCode |-> 0, message |-> <<>>]
Result(v) == [kind |-> "result", value |-> v, statusCode |-> 0, message |-> <<>>]
\* new UnauthorizedError(code)
Unauthorized(code) ==
    [kind |-> "UnauthorizedError", value |-> "", statusCode |-> 0,
     message |-> <<code>>]
\* The UnauthorizedError of request() and the one of requestToken().
UnauthorizedError == Unauthorized(AUTHENTICATION_FAILED)
InvalidClientCredentials == Unauthorized(INVALID_CLIENT_CREDENTIALS)
\* new APIError(message, status)
NewAPIError(message, status) ==
    [kind |-> "APIError", value |-> "", statusCode |-> status,
     message |-> message]
\* new APIError(`${prefix}: ${errorText}`, status)
APIErrorWith(prefix, errorText, status) ==
    NewAPIError(<<prefix, errorText>>, status)
\* The APIError request() throws for a failed response.
APIError(r) == APIErrorWith(API_REQUEST_FAILED, BodyOf(r), r.status)
\* new Error(message)
LocalError(message) ==
    [kind |-> "Error", value |-> "", statusCode |-> 0, message |-> <<message>>]
SyntaxError == [kind |-> "SyntaxError", value |-> "", statusCode |-> 0, message |-> <<>>]

\* response.json(): parsing an empty body is rejected.
Json(r) == IF BodyOf(r) = "" THEN SyntaxError ELSE Result("parsed")

\* The empty-response handling of a first-attempt success.
FirstAttemptResult(r) ==
    IF r.status = 204 \/ r.cl0 THEN Result("empty") ELSE Json(r)

\* The result of a successful retry.
RetryResult(r) == Json(r)

\* ----------------------------------------------------------------- state
VARIABLES
    now,             \* Date.now()
    config,          \* per connection: the fields the constructor sets
    connectArg,      \* per connection: the configuration connect was called with
    accessToken,     \* per connection: cached token, NULL when absent
    tokenExpiresAt,  \* per connection: cached expiry, NULL when absent
    tokenMeta,       \* per connection: the token response behind the cached token
    nIssued,         \* per connection: successful token responses so far
    pc,              \* per caller: position in request()
    op,              \* per caller: the public method in progress
    conn,            \* per caller: the connection the method was called on
    cached0,         \* per caller: accessToken of the connection at issue
    fresh0,          \* per caller: was that token before its effective expiry
    cleared0,        \* per caller: tokens issued so far if the cache was empty at issue
    arg,             \* per caller: the argument of the public method
    url,             \* per caller: the endpoint and query the request goes to
    tokResps,        \* per caller: token-endpoint responses received
    hits,            \* per caller: per ensureToken call, TRUE iff served from cache
    acq,             \* per caller: token values its own acquisitions obtained
    nTokReq,         \* per caller: token-endpoint exchanges it started
    nClear,          \* per caller: times it cleared the cached token
    sent,            \* per caller: bearer token of each API request sent
    resps,           \* per caller: API responses received
    outcome,         \* per caller: what the operation settled with
    hist,            \* per connection: token-endpoint calls of an undisturbed history
    opsStarted       \* operations started so far

vars == <<now, config, connectArg, accessToken, tokenExpiresAt, tokenMeta, nIssued, pc, op, conn,
          cached0, fresh0, cleared0, arg, url, tokResps, hits, acq, nTokReq,
          nClear, sent, resps, outcome, hist, opsStarted>>

connVars == <<config, connectArg>>
cacheVars == <<accessToken, tokenExpiresAt, tokenMeta, nIssued>>
opVars == <<op, conn, cached0, fresh0, cleared0, arg, url>>

\* --------------------------------------------------------- token validity
\* ensureToken's condition without the comparison with the clock.
IsValid_NoExpiryCheck(tok, exp, t) ==
    tok # NULL /\ exp # NULL

\* ensureToken's condition comparing with <= and without the buffer.
IsValid_NoBuffer(tok, exp, t) ==
    tok # NULL /\ exp # NULL /\ t <= exp

\* The condition of ensureToken's if.
IsValid(tok, exp, t) ==
    tok # NULL /\ exp # NULL /\ t < exp - BUFFER_TIME_MS

\* The expiry ensureToken stores for a token response received at t.
ExpiresAt(t, expires_in) == t + (expires_in - 60) * 1000

\* obtainedAt + (expires_in - 60 s) of a token response, in milliseconds.
EffectiveExpiry(m) == m.obtainedAt + m.expires_in * 1000 - BUFFER_TIME_MS

NoMeta == [obtainedAt |-> 0, expires_in |-> 0]
\* A string argument is the sequence of its characters; an optional one is
\* absent or holds a string.
Absent == <<>>
Some(str) == <<str>>
ArgStrings == {<<>>, <<" ">>, <<"a">>, <<" ", "a", " ">>}
Optional == {Absent} \cup {Some(str) : str \in ArgStrings}
\* The options of resolveCredentials.
Options == [q : Optional, partyId : Optional]

\* Truthiness of an optional string: undefined and "" are falsy.
Truthy(v) == v # Absent /\ v[1] # <<>>

\* String.prototype.trim()
RECURSIVE TrimStart(_)
TrimStart(str) ==
    IF str = <<>> THEN str
    ELSE IF Head(str) = " " THEN TrimStart(Tail(str))
    ELSE str

RECURSIVE TrimEnd(_)
TrimEnd(str) ==
    IF str = <<>> THEN str
    ELSE IF str[Len(str)] = " " THEN TrimEnd(SubSeq(str, 1, Len(str) - 1))
    ELSE str

Trim(str) == TrimEnd(TrimStart(str))

\* BATCH.MAX_REQUESTS and the batch sizes tried around it.
MAX_REQUESTS == 100
BatchSizes == {1, MAX_REQUESTS, MAX_REQUESTS + 1}

\* The Authorization header of a request sent without one.
NoAuthorization == 0 - 1

\* No argument; an argument is the number of batch items or the options.
NoArg == [n |-> 0, q |-> Absent, partyId |-> Absent]
BatchArg(n) == [NoArg EXCEPT !.n = n]
OptionsArg(o) == [NoArg EXCEPT !.q = o.q, !.partyId = o.partyId]
\* The argument of resolve(query) and of reverseResolve(partyId).
QueryArg(query) == [NoArg EXCEPT !.q = query]
PartyIdArg(partyId) == [NoArg EXCEPT !.partyId = partyId]
\* The URL of a path without query parameters, and that of a path with
\* the query parameter name=value.
Url(path) == [path |-> path, params |-> <<>>]
UrlWith(path, name, value) == [path |-> path, params |-> <<<<name, value>>>>]
\* API_VERSION, DEFAULT_NETWORK, BASE_URLS and TOKEN_ENDPOINTS
API_VERSION == "v1"
DEFAULT_NETWORK == "mainnet"
BASE_URLS ==
    [devnet |-> "https://id.devnet.cantonloop.com/api/v1",
     mainnet |-> "https://id.cantonloop.com/api/v1"]
TOKEN_ENDPOINTS ==
    [devnet |-> "https://auth.console-dev.fivenorth.io/realms/5n-apps/protocol/openid-connect/token",
     mainnet |-> "https://auth.console-dev.fivenorth.io/realms/5n-apps-mainnet/protocol/openid-connect/token"]

\* An optional text is absent or holds a text; it is truthy if it holds a
\* text other than "".
Given(v) == v # Absent /\ v[1] # ""
\* v || d
OrElse(v, d) == IF Given(v) THEN v[1] ELSE d

\* The values of type Network, and one that is not of the type.
Networks == {"devnet", "testnet", "mainnet", "dev", "test", "main", "localnet"}
\* The configurations idSdk.connect is called with.
ConnectInputs ==
    [network : {Absent} \cup {<<n>> : n \in Networks},
     clientId : {"id"},
     clientSecret : {"secret"},
     baseUrl : {Absent, <<"">>, <<"https://base">>},
     tokenEndpoint : {Absent, <<"">>, <<"https://token">>}]

\* resolveBaseUrl with every network but devnet resolved to mainnet.
ResolveBaseUrl_DevAsMainnet(network) ==
    IF network = "devnet" THEN BASE_URLS.devnet ELSE BASE_URLS.mainnet

\* resolveBaseUrl(network)
ResolveBaseUrl(network) ==
    CASE network \in {"devnet", "dev"} -> BASE_URLS.devnet
      [] network \in {"mainnet", "main"} -> BASE_URLS.mainnet
      [] OTHER -> BASE_URLS.mainnet

\* resolveTokenEndpoint(network)
ResolveTokenEndpoint(network) ==
    CASE network \in {"devnet", "dev"} -> TOKEN_ENDPOINTS.devnet
      [] network \in {"mainnet", "main"} -> TOKEN_ENDPOINTS.mainnet
      [] OTHER -> TOKEN_ENDPOINTS.mainnet

\* The fields new Connection(options) sets.
NewConnection(o) ==
    LET network == OrElse(o.network, DEFAULT_NETWORK)
    IN [network |-> network,
        clientId |-> o.clientId,
        clientSecret |-> o.clientSecret,
        apiVersion |-> OrElse(o.apiVersion, API_VERSION),
        baseUrl |-> IF Given(o.baseUrl) THEN o.baseUrl[1]
                    ELSE ResolveBaseUrl(network),
        tokenEndpoint |-> IF Given(o.tokenEndpoint) THEN o.tokenEndpoint[1]
                          ELSE ResolveTokenEndpoint(network)]

\* The connection idSdk.connect(cfg) returns.
ConnectResult(cfg) ==
    NewConnection([network |-> <<OrElse(cfg.network, DEFAULT_NETWORK)>>,
                   clientId |-> cfg.clientId,
                   clientSecret |-> cfg.clientSecret,
                   baseUrl |-> cfg.baseUrl,
                   tokenEndpoint |-> cfg.tokenEndpoint,
                   apiVersion |-> <<API_VERSION>>])

\* The configuration of the connections that exist from the start.
DefaultInput ==
    [network |-> Absent, clientId |-> "id", clientSecret |-> "secret",
     baseUrl |-> Absent, tokenEndpoint |-> Absent]
\* A connection not constructed yet.
NoConfig ==
    [network |-> "", clientId |-> "", clientSecret |-> "", apiVersion |-> "",
     baseUrl |-> "", tokenEndpoint |-> ""]
Constructed(c) == config[c] # NoConfig

\* hist[c].calls counts the token-endpoint invocations on c for as long as
\* the history of c is undisturbed: its operations ran one after the other,
\* each was issued before the effective expiry of the first token acquired,
\* no token exchange failed and no API response was 401 or 403.
NoHist == [calls |-> 0, disturbed |-> FALSE]
Disturbed == [calls |-> 0, disturbed |-> TRUE]

InFlight(p) == pc[p] \in {"token1", "fetch1", "token2", "fetch2"}

\* A settled promise runs its continuation before any other event.
NoneSettling == \A q \in Procs : pc[q] # "done"

\* The state in which no resource of a connection is held: the clock runs,
\* no token is cached and no caller has an operation in progress.
Fresh ==
    /\ now = 2 * BUFFER_TIME_MS
    /\ accessToken = [c \in Conns |-> NULL]
    /\ tokenExpiresAt = [c \in Conns |-> NULL]
    /\ tokenMeta = [c \in Conns |-> NoMeta]
    /\ nIssued = [c \in Conns |-> 0]
    /\ pc = [p \in Procs |-> "idle"]
    /\ op = [p \in Procs |-> "none"]
    /\ conn = [p \in Procs |-> 1]
    /\ cached0 = [p \in Procs |-> NULL]
    /\ fresh0 = [p \in Procs |-> FALSE]
    /\ cleared0 = [p \in Procs |-> 0]
    /\ arg = [p \in Procs |-> NoArg]
    /\ url = [p \in Procs |-> Url("")]
    /\ tokResps = [p \in Procs |-> <<>>]
    /\ hits = [p \in Procs |-> <<>>]
    /\ acq = [p \in Procs |-> <<>>]
    /\ nTokReq = [p \in Procs |-> 0]
    /\ nClear = [p \in Procs |-> 0]
    /\ sent = [p \in Procs |-> <<>>]
    /\ resps = [p \in Procs |-> <<>>]
    /\ outcome = [p \in Procs |-> NoOutcome]
    /\ hist = [c \in Conns |-> NoHist]
    /\ opsStarted = 0

\* The connections exist, constructed by idSdk.connect.
Init ==
    /\ Fresh
    /\ config = [c \in Conns |-> ConnectResult(DefaultInput)]
    /\ connectArg = [c \in Conns |-> DefaultInput]

\* No connection exists yet.
InitConnect ==
    /\ Fresh
    /\ config = [c \in Conns |-> NoConfig]
    /\ connectArg = [c \in Conns |-> DefaultInput]

\* idSdk.connect obtaining a token before it returns the connection.
Connect_FetchesToken(c, cfg) ==
    /\ NoneSettling
    /\ ~Constructed(c)
    /\ \A d \in Conns : ~Constructed(d) => c <= d
    /\ config' = [config EXCEPT ![c] = ConnectResult(cfg)]
    /\ connectArg' = [connectArg EXCEPT ![c] = cfg]
    /\ nIssued' = [nIssued EXCEPT ![c] = @ + 1]
    /\ accessToken' = [accessToken EXCEPT ![c] = nIssued[c] + 1]
    /\ tokenExpiresAt' = [tokenExpiresAt EXCEPT ![c] = ExpiresAt(now, 240)]
    /\ tokenMeta' = [tokenMeta EXCEPT ![c] =
                       [obtainedAt |-> now, expires_in |-> 240]]
    /\ UNCHANGED <<now, pc, opVars, tokResps, hits, acq, nTokReq, nClear, sent,
                   resps, outcome, hist, opsStarted>>

\* idSdk.connect(cfg) returns connection c: the constructor sets its
\* fields, the token and the expiry are null and nothing is sent.
Connect(c, cfg) ==
    /\ NoneSettling
    /\ ~Constructed(c)
    /\ \A d \in Conns : ~Constructed(d) => c <= d
    /\ config' = [config EXCEPT ![c] = ConnectResult(cfg)]
    /\ connectArg' = [connectArg EXCEPT ![c] = cfg]
    /\ accessToken' = [accessToken EXCEPT ![c] = NULL]
    /\ tokenExpiresAt' = [tokenExpiresAt EXCEPT ![c] = NULL]
    /\ UNCHANGED <<now, tokenMeta, nIssued, pc, opVars, tokResps, hits, acq,
                   nTokReq, nClear, sent, resps, outcome, hist, opsStarted>>

\* Bookkeeping common to the issue of operation o on connection c by p.
\* Callers are interchangeable, so the idle caller of lowest number issues.
Issue(p, o, c) ==
    /\ NoneSettling
    /\ pc[p] = "idle"
    /\ \A q \in Procs : pc[q] = "idle" => p <= q
    /\ opsStarted < MaxOps
    /\ opsStarted' = opsStarted + 1
    /\ op' = [op EXCEPT ![p] = o]
    /\ conn' = [conn EXCEPT ![p] = c]
    /\ cached0' = [cached0 EXCEPT ![p] = accessToken[c]]
    /\ fresh0' = [fresh0 EXCEPT ![p] =
                    accessToken[c] # NULL /\ now < EffectiveExpiry(tokenMeta[c])]
    /\ cleared0' = [cleared0 EXCEPT ![p] =
                      IF accessToken[c] = NULL THEN nIssued[c] ELSE 0]

\* The public method was called with argument a and calls request() with
\* endpoint u.
Called(p, a, u) ==
    /\ arg' = [arg EXCEPT ![p] = a]
    /\ url' = [url EXCEPT ![p] = u]

\* hist[c] after an operation is issued on c; miss says whether its
\* ensureToken call goes to the token endpoint.
HistIssued(p, c, miss) ==
    IF hist[c].calls > 1 THEN hist[c]
    ELSE IF \/ hist[c].disturbed
            \/ \E q \in Procs \ {p} : InFlight(q) /\ conn[q] = c
            \/ accessToken[c] # NULL /\ now >= EffectiveExpiry(tokenMeta[c])
         THEN Disturbed
         ELSE [hist[c] EXCEPT !.calls = IF miss THEN @ + 1 ELSE @]

\* request(): ensureToken finds a valid cached token and the API request
\* is sent with it.
RequestCached(p, o, c) ==
    /\ Issue(p, o, c)
    /\ IsValid(accessToken[c], tokenExpiresAt[c], now)
    /\ hits' = [hits EXCEPT ![p] = <<TRUE>>]
    /\ sent' = [sent EXCEPT ![p] = <<accessToken[c]>>]
    /\ pc' = [pc EXCEPT ![p] = "fetch1"]
    /\ hist' = [hist EXCEPT ![c] = HistIssued(p, c, FALSE)]
    /\ UNCHANGED <<now, connVars, cacheVars, tokResps, acq, nTokReq, nClear, resps, outcome>>

\* request(): ensureToken finds no valid cached token and calls
\* requestToken, which posts to the token endpoint.
RequestAcquire(p, o, c) ==
    /\ Issue(p, o, c)
    /\ ~IsValid(accessToken[c], tokenExpiresAt[c], now)
    /\ hits' = [hits EXCEPT ![p] = <<FALSE>>]
    /\ nTokReq' = [nTokReq EXCEPT ![p] = 1]
    /\ pc' = [pc EXCEPT ![p] = "token1"]
    /\ hist' = [hist EXCEPT ![c] = HistIssued(p, c, TRUE)]
    /\ UNCHANGED <<now, connVars, cacheVars, tokResps, acq, nClear, sent, resps, outcome>>

\* The position request() continues at once ensureToken has returned.
AfterToken(at) == IF at = "token1" THEN "fetch1" ELSE "fetch2"

\* ensureToken keeping a token another call stored while it was waiting.
TokenOk_FirstWins(p, e) ==
    /\ NoneSettling
    /\ pc[p] \in {"token1", "token2"}
    /\ LET c == conn[p]
           tok == nIssued[c] + 1
           keep == accessToken[c] # NULL
       IN /\ nIssued' = [nIssued EXCEPT ![c] = tok]
          /\ accessToken' = [accessToken EXCEPT ![c] = IF keep THEN @ ELSE tok]
          /\ tokenExpiresAt' = [tokenExpiresAt EXCEPT ![c] =
                                  IF keep THEN @ ELSE ExpiresAt(now, e)]
          /\ tokenMeta' = [tokenMeta EXCEPT ![c] =
                             IF keep THEN @
                             ELSE [obtainedAt |-> now, expires_in |-> e]]
          /\ acq' = [acq EXCEPT ![p] = Append(@, tok)]
          /\ sent' = [sent EXCEPT ![p] = Append(@, tok)]
    /\ tokResps' = [tokResps EXCEPT ![p] = Append(@, [status |-> 200, text |-> "json"])]
    /\ pc' = [pc EXCEPT ![p] = AfterToken(pc[p])]
    /\ UNCHANGED <<now, connVars, opVars, hits, nTokReq, nClear, resps, outcome, hist,
                   opsStarted>>

\* ensureToken returning the token another call stored while this call's
\* token request was in flight.
TokenOk_SendsStored(p, e) ==
    /\ NoneSettling
    /\ pc[p] \in {"token1", "token2"}
    /\ LET c == conn[p]
           tok == nIssued[c] + 1
       IN /\ nIssued' = [nIssued EXCEPT ![c] = tok]
          /\ accessToken' = [accessToken EXCEPT ![c] = tok]
          /\ tokenExpiresAt' = [tokenExpiresAt EXCEPT ![c] = ExpiresAt(now, e)]
          /\ tokenMeta' = [tokenMeta EXCEPT ![c] =
                             [obtainedAt |-> now, expires_in |-> e]]
          /\ acq' = [acq EXCEPT ![p] = Append(@, tok)]
          /\ sent' = [sent EXCEPT ![p] =
                         Append(@, IF accessToken[c] # NULL THEN accessToken[c]
                                   ELSE tok)]
    /\ tokResps' = [tokResps EXCEPT ![p] = Append(@, [status |-> 200, text |-> "json"])]
    /\ pc' = [pc EXCEPT ![p] = AfterToken(pc[p])]
    /\ UNCHANGED <<now, connVars, opVars, hits, nTokReq, nClear, resps, outcome, hist,
                   opsStarted>>

\* ensureToken storing the new token but never moving the expiry back.
TokenOk_KeepsLaterExpiry(p, e) ==
    /\ NoneSettling
    /\ pc[p] \in {"token1", "token2"}
    /\ LET c == conn[p]
           tok == nIssued[c] + 1
           at == ExpiresAt(now, e)
       IN /\ nIssued' = [nIssued EXCEPT ![c] = tok]
          /\ accessToken' = [accessToken EXCEPT ![c] = tok]
          /\ tokenExpiresAt' = [tokenExpiresAt EXCEPT ![c] =
                                  IF @ # NULL /\ @ > at THEN @ ELSE at]
          /\ tokenMeta' = [tokenMeta EXCEPT ![c] =
                             [obtainedAt |-> now, expires_in |-> e]]
          /\ acq' = [acq EXCEPT ![p] = Append(@, tok)]
          /\ sent' = [sent EXCEPT ![p] = Append(@, tok)]
    /\ tokResps' = [tokResps EXCEPT ![p] = Append(@, [status |-> 200, text |-> "json"])]
    /\ pc' = [pc EXCEPT ![p] = AfterToken(pc[p])]
    /\ UNCHANGED <<now, connVars, opVars, hits, nTokReq, nClear, resps, outcome, hist,
                   opsStarted>>

\* ensureToken storing the token in a cache all connections share.
TokenOk_SharedCache(p, e) ==
    /\ NoneSettling
    /\ pc[p] \in {"token1", "token2"}
    /\ LET c == conn[p]
           tok == nIssued[c] + 1
       IN /\ nIssued' = [nIssued EXCEPT ![c] = tok]
          /\ accessToken' = [d \in Conns |-> tok]
          /\ tokenExpiresAt' = [d \in Conns |-> ExpiresAt(now, e)]
          /\ tokenMeta' = [d \in Conns |-> [obtainedAt |-> now, expires_in |-> e]]
          /\ acq' = [acq EXCEPT ![p] = Append(@, tok)]
          /\ sent' = [sent EXCEPT ![p] = Append(@, tok)]
    /\ tokResps' = [tokResps EXCEPT ![p] = Append(@, [status |-> 200, text |-> "json"])]
    /\ pc' = [pc EXCEPT ![p] = AfterToken(pc[p])]
    /\ UNCHANGED <<now, connVars, opVars, hits, nTokReq, nClear, resps, outcome,
                   hist, opsStarted>>

\* The token endpoint answers with success: ensureToken stores the token
\* and its expiry and returns the token; request() sends the API request.
TokenOk(p, e) ==
    /\ NoneSettling
    /\ pc[p] \in {"token1", "token2"}
    /\ LET c == conn[p]
           tok == nIssued[c] + 1
       IN /\ nIssued' = [nIssued EXCEPT ![c] = tok]
          /\ accessToken' = [accessToken EXCEPT ![c] = tok]
          /\ tokenExpiresAt' = [tokenExpiresAt EXCEPT ![c] = ExpiresAt(now, e)]
          /\ tokenMeta' = [tokenMeta EXCEPT ![c] =
                             [obtainedAt |-> now, expires_in |-> e]]
          /\ acq' = [acq EXCEPT ![p] = Append(@, tok)]
          /\ sent' = [sent EXCEPT ![p] = Append(@, tok)]
    /\ tokResps' = [tokResps EXCEPT ![p] = Append(@, [status |-> 200, text |-> "json"])]
    /\ pc' = [pc EXCEPT ![p] = AfterToken(pc[p])]
    /\ UNCHANGED <<now, connVars, opVars, hits, nTokReq, nClear, resps, outcome, hist,
                   opsStarted>>

\* request() sending the retry with the token of the first request when the
\* second token request fails.
TokenFail_RetriesWithOldToken(p, r) ==
    /\ NoneSettling
    /\ pc[p] \in {"token1", "token2"}
    /\ ~Ok(r.status)
    /\ tokResps' = [tokResps EXCEPT ![p] = Append(@, r)]
    /\ IF pc[p] = "token2"
       THEN /\ sent' = [sent EXCEPT ![p] = Append(@, @[1])]
            /\ pc' = [pc EXCEPT ![p] = "fetch2"]
            /\ UNCHANGED outcome
       ELSE /\ outcome' = [outcome EXCEPT ![p] =
                            IF IsAuthStatus(r.status) THEN InvalidClientCredentials
                            ELSE APIErrorWith(FAILED_TO_OBTAIN_TOKEN, BodyOf(r),
                                              r.status)]
            /\ pc' = [pc EXCEPT ![p] = "done"]
            /\ UNCHANGED sent
    /\ hist' = [hist EXCEPT ![conn[p]] = IF @.calls > 1 THEN @ ELSE Disturbed]
    /\ UNCHANGED <<now, connVars, cacheVars, opVars, hits, acq, nTokReq, nClear,
                   resps, opsStarted>>

\* ensureToken dropping the stored token when the token request fails.
TokenFail_ClearsCache(p, r) ==
    /\ NoneSettling
    /\ pc[p] \in {"token1", "token2"}
    /\ ~Ok(r.status)
    /\ accessToken' = [accessToken EXCEPT ![conn[p]] = NULL]
    /\ tokenExpiresAt' = [tokenExpiresAt EXCEPT ![conn[p]] = NULL]
    /\ tokenMeta' = [tokenMeta EXCEPT ![conn[p]] = NoMeta]
    /\ tokResps' = [tokResps EXCEPT ![p] = Append(@, r)]
    /\ outcome' = [outcome EXCEPT ![p] =
                     IF IsAuthStatus(r.status) THEN InvalidClientCredentials
                     ELSE APIErrorWith(FAILED_TO_OBTAIN_TOKEN, BodyOf(r), r.status)]
    /\ pc' = [pc EXCEPT ![p] = "done"]
    /\ hist' = [hist EXCEPT ![conn[p]] = IF @.calls > 1 THEN @ ELSE Disturbed]
    /\ UNCHANGED <<now, connVars, nIssued, opVars, hits, acq, nTokReq, nClear, sent,
                   resps, opsStarted>>

\* requestToken falling back to the mainnet token endpoint after a failure.
TokenFail_ResetsEndpoint(p, r) ==
    /\ NoneSettling
    /\ pc[p] \in {"token1", "token2"}
    /\ ~Ok(r.status)
    /\ config' = [config EXCEPT ![conn[p]].tokenEndpoint = TOKEN_ENDPOINTS.mainnet]
    /\ tokResps' = [tokResps EXCEPT ![p] = Append(@, r)]
    /\ outcome' = [outcome EXCEPT ![p] =
                     IF IsAuthStatus(r.status) THEN InvalidClientCredentials
                     ELSE APIErrorWith(FAILED_TO_OBTAIN_TOKEN, BodyOf(r), r.status)]
    /\ pc' = [pc EXCEPT ![p] = "done"]
    /\ hist' = [hist EXCEPT ![conn[p]] = IF @.calls > 1 THEN @ ELSE Disturbed]
    /\ UNCHANGED <<now, connectArg, cacheVars, opVars, hits, acq, nTokReq, nClear,
                   sent, resps, opsStarted>>

\* requestToken without the 401/403 test on the token response.
TokenFail_NoAuthTest(p, r) ==
    /\ NoneSettling
    /\ pc[p] \in {"token1", "token2"}
    /\ ~Ok(r.status)
    /\ tokResps' = [tokResps EXCEPT ![p] = Append(@, r)]
    /\ outcome' = [outcome EXCEPT ![p] =
                     APIErrorWith(FAILED_TO_OBTAIN_TOKEN, BodyOf(r), r.status)]
    /\ pc' = [pc EXCEPT ![p] = "done"]
    /\ hist' = [hist EXCEPT ![conn[p]] = IF @.calls > 1 THEN @ ELSE Disturbed]
    /\ UNCHANGED <<now, connVars, cacheVars, opVars, hits, acq, nTokReq, nClear, sent,
                   resps, opsStarted>>

\* ensureToken posting to the token endpoint again after a failure.
TokenFail_Retries(p, r) ==
    /\ NoneSettling
    /\ pc[p] \in {"token1", "token2"}
    /\ ~Ok(r.status)
    /\ tokResps' = [tokResps EXCEPT ![p] = Append(@, r)]
    /\ nTokReq' = [nTokReq EXCEPT ![p] = @ + 1]
    /\ hist' = [hist EXCEPT ![conn[p]] = IF @.calls > 1 THEN @ ELSE Disturbed]
    /\ UNCHANGED <<now, connVars, cacheVars, opVars, pc, hits, acq, nClear, sent, resps,
                   outcome, opsStarted>>

\* The token endpoint answers with a non-success status: requestToken
\* throws and the error propagates out of ensureToken and request().
TokenFail(p, r) ==
    /\ NoneSettling
    /\ pc[p] \in {"token1", "token2"}
    /\ ~Ok(r.status)
    /\ tokResps' = [tokResps EXCEPT ![p] = Append(@, r)]
    /\ outcome' = [outcome EXCEPT ![p] =
                     IF IsAuthStatus(r.status) THEN InvalidClientCredentials
                     ELSE APIErrorWith(FAILED_TO_OBTAIN_TOKEN, BodyOf(r), r.status)]
    /\ pc' = [pc EXCEPT ![p] = "done"]
    /\ hist' = [hist EXCEPT ![conn[p]] = IF @.calls > 1 THEN @ ELSE Disturbed]
    /\ UNCHANGED <<now, connVars, cacheVars, opVars, hits, acq, nTokReq, nClear, sent,
                   resps, opsStarted>>

\* The first API response is a success.
ApiOk1(p, r) ==
    /\ NoneSettling
    /\ pc[p] = "fetch1"
    /\ Ok(r.status)
    /\ resps' = [resps EXCEPT ![p] = Append(@, r)]
    /\ outcome' = [outcome EXCEPT ![p] = FirstAttemptResult(r)]
    /\ pc' = [pc EXCEPT ![p] = "done"]
    /\ UNCHANGED <<now, connVars, cacheVars, opVars, tokResps, hits, acq, nTokReq, nClear,
                   sent, hist, opsStarted>>

\* The 401/403 branch of request() clearing the cache and sending the
\* retry with the token of the first attempt, without calling ensureToken.
ClearAndRetry_Resends(p, r) ==
    /\ LET c == conn[p]
       IN /\ accessToken' = [accessToken EXCEPT ![c] = NULL]
          /\ tokenExpiresAt' = [tokenExpiresAt EXCEPT ![c] = NULL]
          /\ tokenMeta' = [tokenMeta EXCEPT ![c] = NoMeta]
          /\ hist' = [hist EXCEPT ![c] = IF @.calls > 1 THEN @ ELSE Disturbed]
    /\ sent' = [sent EXCEPT ![p] = Append(@, sent[p][1])]
    /\ pc' = [pc EXCEPT ![p] = "fetch2"]
    /\ resps' = [resps EXCEPT ![p] = Append(@, r)]
    /\ nClear' = [nClear EXCEPT ![p] = @ + 1]
    /\ UNCHANGED <<now, connVars, nIssued, opVars, tokResps, hits, nTokReq, acq, outcome,
                   opsStarted>>

\* The 401/403 branch of request(): the cache is cleared and ensureToken
\* is called again, which posts to the token endpoint unless it finds a
\* valid cached token.
ClearAndRetry(p, r) ==
    /\ LET c == conn[p]
           miss == ~IsValid(NULL, NULL, now)
       IN /\ accessToken' = [accessToken EXCEPT ![c] = NULL]
          /\ tokenExpiresAt' = [tokenExpiresAt EXCEPT ![c] = NULL]
          /\ tokenMeta' = [tokenMeta EXCEPT ![c] = NoMeta]
          /\ hist' = [hist EXCEPT ![c] = IF @.calls > 1 THEN @ ELSE Disturbed]
          /\ hits' = [hits EXCEPT ![p] = Append(@, ~miss)]
          /\ IF miss
             THEN /\ nTokReq' = [nTokReq EXCEPT ![p] = @ + 1]
                  /\ pc' = [pc EXCEPT ![p] = "token2"]
                  /\ UNCHANGED sent
             ELSE /\ sent' = [sent EXCEPT ![p] = Append(@, NULL)]
                  /\ pc' = [pc EXCEPT ![p] = "fetch2"]
                  /\ UNCHANGED nTokReq
    /\ resps' = [resps EXCEPT ![p] = Append(@, r)]
    /\ nClear' = [nClear EXCEPT ![p] = @ + 1]
    /\ UNCHANGED <<now, connVars, nIssued, opVars, tokResps, acq, outcome, opsStarted>>

\* request() clearing the cache only if it still holds the rejected token,
\* and otherwise retrying with the token it finds there.
ApiAuthFail1_ClearsOwnToken(p, r) ==
    /\ NoneSettling
    /\ pc[p] = "fetch1"
    /\ ~Ok(r.status)
    /\ IsAuthStatus(r.status)
    /\ IF accessToken[conn[p]] = sent[p][1]
          \/ ~IsValid(accessToken[conn[p]], tokenExpiresAt[conn[p]], now)
       THEN ClearAndRetry(p, r)
       ELSE /\ hits' = [hits EXCEPT ![p] = Append(@, TRUE)]
            /\ sent' = [sent EXCEPT ![p] = Append(@, accessToken[conn[p]])]
            /\ pc' = [pc EXCEPT ![p] = "fetch2"]
            /\ resps' = [resps EXCEPT ![p] = Append(@, r)]
            /\ hist' = [hist EXCEPT ![conn[p]] =
                          IF @.calls > 1 THEN @ ELSE Disturbed]
            /\ UNCHANGED <<now, connVars, cacheVars, opVars, tokResps, acq, nTokReq,
                           nClear, outcome, opsStarted>>

\* request() retrying with a token of its own and leaving the cache as it
\* is until that token is stored.
ApiAuthFail1_KeepsCache(p, r) ==
    /\ NoneSettling
    /\ pc[p] = "fetch1"
    /\ ~Ok(r.status)
    /\ IsAuthStatus(r.status)
    /\ hist' = [hist EXCEPT ![conn[p]] = IF @.calls > 1 THEN @ ELSE Disturbed]
    /\ hits' = [hits EXCEPT ![p] = Append(@, FALSE)]
    /\ nTokReq' = [nTokReq EXCEPT ![p] = @ + 1]
    /\ pc' = [pc EXCEPT ![p] = "token2"]
    /\ resps' = [resps EXCEPT ![p] = Append(@, r)]
    /\ nClear' = [nClear EXCEPT ![p] = @ + 1]
    /\ UNCHANGED <<now, connVars, cacheVars, opVars, tokResps, acq, sent, outcome,
                   opsStarted>>

\* The first API response is 401 or 403.
ApiAuthFail1(p, r) ==
    /\ NoneSettling
    /\ pc[p] = "fetch1"
    /\ ~Ok(r.status)
    /\ IsAuthStatus(r.status)
    /\ ClearAndRetry(p, r)

\* request() retrying after any non-success status.
ApiError1_Retries(p, r) ==
    /\ NoneSettling
    /\ pc[p] = "fetch1"
    /\ ~Ok(r.status)
    /\ ~IsAuthStatus(r.status)
    /\ ClearAndRetry(p, r)

\* request() clearing the cache on any non-success status.
ApiError1_Clears(p, r) ==
    /\ NoneSettling
    /\ pc[p] = "fetch1"
    /\ ~Ok(r.status)
    /\ ~IsAuthStatus(r.status)
    /\ accessToken' = [accessToken EXCEPT ![conn[p]] = NULL]
    /\ tokenExpiresAt' = [tokenExpiresAt EXCEPT ![conn[p]] = NULL]
    /\ resps' = [resps EXCEPT ![p] = Append(@, r)]
    /\ outcome' = [outcome EXCEPT ![p] = APIError(r)]
    /\ pc' = [pc EXCEPT ![p] = "done"]
    /\ UNCHANGED <<now, connVars, tokenMeta, nIssued, opVars, tokResps, hits, acq, nTokReq,
                   nClear, sent, hist, opsStarted>>

\* The first API response is another non-success status.
ApiError1(p, r) ==
    /\ NoneSettling
    /\ pc[p] = "fetch1"
    /\ ~Ok(r.status)
    /\ ~IsAuthStatus(r.status)
    /\ resps' = [resps EXCEPT ![p] = Append(@, r)]
    /\ outcome' = [outcome EXCEPT ![p] = APIError(r)]
    /\ pc' = [pc EXCEPT ![p] = "done"]
    /\ UNCHANGED <<now, connVars, cacheVars, opVars, tokResps, hits, acq, nTokReq, nClear,
                   sent, hist, opsStarted>>

\* The retry response is a success.
ApiOk2(p, r) ==
    /\ NoneSettling
    /\ pc[p] = "fetch2"
    /\ Ok(r.status)
    /\ resps' = [resps EXCEPT ![p] = Append(@, r)]
    /\ outcome' = [outcome EXCEPT ![p] = RetryResult(r)]
    /\ pc' = [pc EXCEPT ![p] = "done"]
    /\ UNCHANGED <<now, connVars, cacheVars, opVars, tokResps, hits, acq, nTokReq, nClear,
                   sent, hist, opsStarted>>

\* request() without the 401/403 test on the retry response.
ApiFail2_Generic(p, r) ==
    /\ NoneSettling
    /\ pc[p] = "fetch2"
    /\ ~Ok(r.status)
    /\ resps' = [resps EXCEPT ![p] = Append(@, r)]
    /\ outcome' = [outcome EXCEPT ![p] = APIError(r)]
    /\ pc' = [pc EXCEPT ![p] = "done"]
    /\ UNCHANGED <<now, connVars, cacheVars, opVars, tokResps, hits, acq, nTokReq, nClear,
                   sent, hist, opsStarted>>

\* request() reporting the first response when the retry fails.
ApiFail2_FirstResponse(p, r) ==
    /\ NoneSettling
    /\ pc[p] = "fetch2"
    /\ ~Ok(r.status)
    /\ resps' = [resps EXCEPT ![p] = Append(@, r)]
    /\ outcome' = [outcome EXCEPT ![p] =
                     IF IsAuthStatus(r.status) THEN UnauthorizedError
                     ELSE APIError(resps[p][1])]
    /\ pc' = [pc EXCEPT ![p] = "done"]
    /\ UNCHANGED <<now, connVars, cacheVars, opVars, tokResps, hits, acq, nTokReq, nClear,
                   sent, hist, opsStarted>>

\* The retry response is a non-success status.
\* request() returning the body of the retry response without testing
\* retryResponse.ok.
ApiFail2_ReturnsBody(p, r) ==
    /\ NoneSettling
    /\ pc[p] = "fetch2"
    /\ ~Ok(r.status)
    /\ resps' = [resps EXCEPT ![p] = Append(@, r)]
    /\ outcome' = [outcome EXCEPT ![p] = RetryResult(r)]
    /\ pc' = [pc EXCEPT ![p] = "done"]
    /\ UNCHANGED <<now, connVars, cacheVars, opVars, tokResps, hits, acq, nTokReq, nClear,
                   sent, hist, opsStarted>>

\* request() invalidating the token and retrying again after a retry that
\* was rejected with 401 or 403.
ApiFail2_RetriesAgain(p, r) ==
    /\ NoneSettling
    /\ pc[p] = "fetch2"
    /\ ~Ok(r.status)
    /\ resps' = [resps EXCEPT ![p] = Append(@, r)]
    /\ IF IsAuthStatus(r.status)
       THEN /\ accessToken' = [accessToken EXCEPT ![conn[p]] = NULL]
            /\ tokenExpiresAt' = [tokenExpiresAt EXCEPT ![conn[p]] = NULL]
            /\ tokenMeta' = [tokenMeta EXCEPT ![conn[p]] = NoMeta]
            /\ nTokReq' = [nTokReq EXCEPT ![p] = @ + 1]
            /\ nClear' = [nClear EXCEPT ![p] = @ + 1]
            /\ pc' = [pc EXCEPT ![p] = "token2"]
            /\ UNCHANGED <<nIssued, outcome>>
       ELSE /\ outcome' = [outcome EXCEPT ![p] = APIError(r)]
            /\ pc' = [pc EXCEPT ![p] = "done"]
            /\ UNCHANGED <<cacheVars, nTokReq, nClear>>
    /\ UNCHANGED <<now, connVars, opVars, tokResps, hits, acq, sent, hist, opsStarted>>

ApiFail2(p, r) ==
    /\ NoneSettling
    /\ pc[p] = "fetch2"
    /\ ~Ok(r.status)
    /\ resps' = [resps EXCEPT ![p] = Append(@, r)]
    /\ outcome' = [outcome EXCEPT ![p] =
                     IF IsAuthStatus(r.status) THEN UnauthorizedError
                     ELSE APIError(r)]
    /\ pc' = [pc EXCEPT ![p] = "done"]
    /\ UNCHANGED <<now, connVars, cacheVars, opVars, tokResps, hits, acq, nTokReq, nClear,
                   sent, hist, opsStarted>>

\* The caller's continuation runs with the settled outcome; the caller
\* is then free to issue its next operation.
Settle(p) ==
    /\ pc[p] = "done"
    /\ pc' = [pc EXCEPT ![p] = "idle"]
    /\ op' = [op EXCEPT ![p] = "none"]
    /\ conn' = [conn EXCEPT ![p] = 1]
    /\ cached0' = [cached0 EXCEPT ![p] = NULL]
    /\ fresh0' = [fresh0 EXCEPT ![p] = FALSE]
    /\ cleared0' = [cleared0 EXCEPT ![p] = 0]
    /\ arg' = [arg EXCEPT ![p] = NoArg]
    /\ url' = [url EXCEPT ![p] = Url("")]
    /\ tokResps' = [tokResps EXCEPT ![p] = <<>>]
    /\ hits' = [hits EXCEPT ![p] = <<>>]
    /\ acq' = [acq EXCEPT ![p] = <<>>]
    /\ nTokReq' = [nTokReq EXCEPT ![p] = 0]
    /\ nClear' = [nClear EXCEPT ![p] = 0]
    /\ sent' = [sent EXCEPT ![p] = <<>>]
    /\ resps' = [resps EXCEPT ![p] = <<>>]
    /\ outcome' = [outcome EXCEPT ![p] = NoOutcome]
    /\ UNCHANGED <<now, connVars, cacheVars, hist, opsStarted>>

\* Time passes.
Advance ==
    /\ NoneSettling
    /\ now < 2 * BUFFER_TIME_MS + MaxTicks * Tick
    /\ now' = now + Tick
    /\ UNCHANGED <<connVars, cacheVars, pc, opVars, tokResps, hits, acq, nTokReq,
                   nClear, sent, resps, outcome, hist, opsStarted>>

\* request(endpoint, options): either way ensureToken goes.
Request(p, o, c, a, u) ==
    \/ RequestCached(p, o, c) /\ Called(p, a, u)
    \/ RequestAcquire(p, o, c) /\ Called(p, a, u)

\* createCredentialsRequest(request)
CreateCredentialsRequest(p, c) ==
    Request(p, "createCredentialsRequest", c, NoArg,
            Url("CREDENTIALS_ACCESS_REQUEST"))

\* A public method that settles without any network call.
Local(p, o, c, a, out) ==
    /\ Issue(p, o, c)
    /\ Called(p, a, Url(""))
    /\ outcome' = [outcome EXCEPT ![p] = out]
    /\ pc' = [pc EXCEPT ![p] = "done"]
    /\ UNCHANGED <<now, connVars, cacheVars, tokResps, hits, acq, nTokReq, nClear, sent,
                   resps, hist>>

\* generateVerificationLinksBatch with as many items as the cap.
GenerateVerificationLinksBatch_CapExclusive(p, c, n) ==
    \/ /\ n >= MAX_REQUESTS
       /\ Local(p, "generateVerificationLinksBatch", c, BatchArg(n),
                LocalError(MAX_BATCH_REQUESTS))
    \/ /\ ~(n >= MAX_REQUESTS)
       /\ Request(p, "generateVerificationLinksBatch", c, BatchArg(n),
                  Url("VERIFICATION_GENERATE_LINKS_BATCH"))

\* generateVerificationLinksBatch(request) with n request items
GenerateVerificationLinksBatch(p, c, n) ==
    \/ /\ n > MAX_REQUESTS
       /\ Local(p, "generateVerificationLinksBatch", c, BatchArg(n),
                LocalError(MAX_BATCH_REQUESTS))
    \/ /\ ~(n > MAX_REQUESTS)
       /\ Request(p, "generateVerificationLinksBatch", c, BatchArg(n),
                  Url("VERIFICATION_GENERATE_LINKS_BATCH"))

\* checkVerificationStatus posting through request().
CheckVerificationStatus_Authenticated(p, c) ==
    Request(p, "checkVerificationStatus", c, NoArg, Url("VERIFICATION_CHECK"))

\* checkVerificationStatus(token): a bare fetch without headers.
CheckVerificationStatus(p, c) ==
    /\ Issue(p, "checkVerificationStatus", c)
    /\ Called(p, NoArg, Url("VERIFICATION_CHECK"))
    /\ sent' = [sent EXCEPT ![p] = <<NoAuthorization>>]
    /\ pc' = [pc EXCEPT ![p] = "check"]
    /\ UNCHANGED <<now, connVars, cacheVars, tokResps, hits, acq, nTokReq, nClear, resps,
                   outcome, hist>>

\* The response to checkVerificationStatus is a success.
CheckOk(p, r) ==
    /\ NoneSettling
    /\ pc[p] = "check"
    /\ Ok(r.status)
    /\ resps' = [resps EXCEPT ![p] = Append(@, r)]
    /\ outcome' = [outcome EXCEPT ![p] = Json(r)]
    /\ pc' = [pc EXCEPT ![p] = "done"]
    /\ UNCHANGED <<now, connVars, cacheVars, opVars, tokResps, hits, acq, nTokReq, nClear,
                   sent, hist, opsStarted>>

\* checkVerificationStatus without the 404 test.
CheckFail_No404Test(p, r) ==
    /\ NoneSettling
    /\ pc[p] = "check"
    /\ ~Ok(r.status)
    /\ resps' = [resps EXCEPT ![p] = Append(@, r)]
    /\ outcome' = [outcome EXCEPT ![p] =
                     APIErrorWith(FAILED_TO_CHECK_VERIFICATION, BodyOf(r),
                                  r.status)]
    /\ pc' = [pc EXCEPT ![p] = "done"]
    /\ UNCHANGED <<now, connVars, cacheVars, opVars, tokResps, hits, acq, nTokReq, nClear,
                   sent, hist, opsStarted>>

\* The response to checkVerificationStatus is a non-success status.
\* checkVerificationStatus treating a 401/403 as request() does: the cache
\* is cleared and an UnauthorizedError thrown.
CheckFail_AuthAsRequest(p, r) ==
    /\ NoneSettling
    /\ pc[p] = "check"
    /\ ~Ok(r.status)
    /\ resps' = [resps EXCEPT ![p] = Append(@, r)]
    /\ IF IsAuthStatus(r.status)
       THEN /\ accessToken' = [accessToken EXCEPT ![conn[p]] = NULL]
            /\ tokenExpiresAt' = [tokenExpiresAt EXCEPT ![conn[p]] = NULL]
            /\ tokenMeta' = [tokenMeta EXCEPT ![conn[p]] = NoMeta]
            /\ outcome' = [outcome EXCEPT ![p] = UnauthorizedError]
            /\ UNCHANGED nIssued
       ELSE /\ outcome' = [outcome EXCEPT ![p] =
                            IF r.status = 404
                            THEN NewAPIError(<<TOKEN_NOT_FOUND>>, 404)
                            ELSE APIErrorWith(FAILED_TO_CHECK_VERIFICATION,
                                              BodyOf(r), r.status)]
            /\ UNCHANGED cacheVars
    /\ pc' = [pc EXCEPT ![p] = "done"]
    /\ UNCHANGED <<now, connVars, opVars, tokResps, hits, acq, nTokReq, nClear,
                   sent, hist, opsStarted>>

CheckFail(p, r) ==
    /\ NoneSettling
    /\ pc[p] = "check"
    /\ ~Ok(r.status)
    /\ resps' = [resps EXCEPT ![p] = Append(@, r)]
    /\ outcome' = [outcome EXCEPT ![p] =
                     IF r.status = 404
                     THEN NewAPIError(<<TOKEN_NOT_FOUND>>, 404)
                     ELSE APIErrorWith(FAILED_TO_CHECK_VERIFICATION, BodyOf(r),
                                       r.status)]
    /\ pc' = [pc EXCEPT ![p] = "done"]
    /\ UNCHANGED <<now, connVars, cacheVars, opVars, tokResps, hits, acq, nTokReq, nClear,
                   sent, hist, opsStarted>>

\* resolve(query), called by the public method o with argument a.
\* resolve() testing !query only, without the trim.
Resolve_NoTrimTest(p, o, c, a, query) ==
    \/ /\ ~Truthy(query)
       /\ Local(p, o, c, a, Result("credentials: []"))
    \/ /\ Truthy(query)
       /\ Request(p, o, c, a,
                  UrlWith("RESOLVE_CREDENTIALS", "q", Trim(query[1])))

Resolve(p, o, c, a, query) ==
    \/ /\ ~Truthy(query) \/ Trim(query[1]) = <<>>
       /\ Local(p, o, c, a, Result("credentials: []"))
    \/ /\ Truthy(query) /\ Trim(query[1]) # <<>>
       /\ Request(p, o, c, a,
                  UrlWith("RESOLVE_CREDENTIALS", "q", Trim(query[1])))

\* reverseResolve sending the party identifier as the parameter q.
ReverseResolve_ParamQ(p, o, c, a, partyId) ==
    Resolve(p, o, c, a, partyId)

\* reverseResolve(partyId), called by the public method o with argument a.
ReverseResolve(p, o, c, a, partyId) ==
    \/ /\ ~Truthy(partyId) \/ Trim(partyId[1]) = <<>>
       /\ Local(p, o, c, a, Result("credentials: []"))
    \/ /\ Truthy(partyId) /\ Trim(partyId[1]) # <<>>
       /\ Request(p, o, c, a,
                  UrlWith("RESOLVE_CREDENTIALS", "partyId", Trim(partyId[1])))

\* resolveCredentials without the test for both parameters.
ResolveCredentials_NoBothTest(p, c, o) ==
    \/ /\ ~Truthy(o.q) /\ ~Truthy(o.partyId)
       /\ Local(p, "resolveCredentials", c, OptionsArg(o),
                LocalError("Either q (email/username) or partyId must be provided"))
    \/ /\ Truthy(o.partyId)
       /\ ReverseResolve(p, "resolveCredentials", c, OptionsArg(o), o.partyId)
    \/ /\ Truthy(o.q) /\ ~Truthy(o.partyId)
       /\ Resolve(p, "resolveCredentials", c, OptionsArg(o), o.q)

\* resolveCredentials(options)
ResolveCredentials(p, c, o) ==
    \/ /\ ~Truthy(o.q) /\ ~Truthy(o.partyId)
       /\ Local(p, "resolveCredentials", c, OptionsArg(o),
                LocalError("Either q (email/username) or partyId must be provided"))
    \/ /\ Truthy(o.q) /\ Truthy(o.partyId)
       /\ Local(p, "resolveCredentials", c, OptionsArg(o),
                LocalError("Cannot provide both q and partyId"))
    \/ /\ ~Truthy(o.q) /\ Truthy(o.partyId)
       /\ ReverseResolve(p, "resolveCredentials", c, OptionsArg(o), o.partyId)
    \/ /\ Truthy(o.q) /\ ~Truthy(o.partyId)
       /\ Resolve(p, "resolveCredentials", c, OptionsArg(o), o.q)

Next ==
    \/ \E p \in Procs, c \in SharedConns : CreateCredentialsRequest(p, c)
    \/ \E p \in Procs, e \in ExpiresInValues : TokenOk(p, e)
    \/ \E p \in Procs, r \in TokenResponses : TokenFail(p, r)
    \/ \E p \in Procs, r \in Responses : ApiOk1(p, r)
    \/ \E p \in Procs, r \in Responses : ApiAuthFail1(p, r)
    \/ \E p \in Procs, r \in Responses : ApiError1(p, r)
    \/ \E p \in Procs, r \in Responses : ApiOk2(p, r)
    \/ \E p \in Procs, r \in Responses : ApiFail2(p, r)
    \/ \E p \in Procs : Settle(p)
    \/ Advance

Spec == Init /\ [][Next]_vars

\* The public methods with a test of their own before the request, and the
\* unauthenticated one.
\* The caller awaits each call before the next.
Awaited == \A q \in Procs : pc[q] = "idle"

NextOps ==
    \/ \E p \in Procs, c \in SharedConns, n \in BatchSizes :
          Awaited /\ GenerateVerificationLinksBatch(p, c, n)
    \/ \E p \in Procs, c \in SharedConns, str \in ArgStrings :
          Awaited /\ Resolve(p, "resolve", c, QueryArg(Some(str)), Some(str))
    \/ \E p \in Procs, c \in SharedConns, str \in ArgStrings :
          Awaited /\ ReverseResolve(p, "reverseResolve", c,
                                    PartyIdArg(Some(str)), Some(str))
    \/ \E p \in Procs, c \in SharedConns, o \in Options :
          Awaited /\ ResolveCredentials(p, c, o)
    \/ \E p \in Procs, c \in SharedConns :
          Awaited /\ CheckVerificationStatus(p, c)
    \/ \E p \in Procs, r \in Responses : CheckOk(p, r)
    \/ \E p \in Procs, r \in Responses : CheckFail(p, r)
    \/ \E p \in Procs, e \in ExpiresInValues : TokenOk(p, e)
    \/ \E p \in Procs, r \in TokenResponses : TokenFail(p, r)
    \/ \E p \in Procs, r \in Responses : ApiOk1(p, r)
    \/ \E p \in Procs, r \in Responses : ApiAuthFail1(p, r)
    \/ \E p \in Procs, r \in Responses : ApiError1(p, r)
    \/ \E p \in Procs, r \in Responses : ApiOk2(p, r)
    \/ \E p \in Procs, r \in Responses : ApiFail2(p, r)
    \/ \E p \in Procs : Settle(p)
    \/ Advance

SpecOps == Init /\ [][NextOps]_vars

\* idSdk.connect called with every configuration, for each connection.
NextConnect ==
    \E c \in Conns, cfg \in ConnectInputs : Connect(c, cfg)

SpecConnect == InitConnect /\ [][NextConnect]_vars

\* Configurations with the same credentials and different networks.
TwoInputs == {cfg \in ConnectInputs :
                /\ cfg.network \in {Absent, <<"devnet">>}
                /\ cfg.baseUrl = Absent
                /\ cfg.tokenEndpoint = Absent}

\* One response of each kind request() and requestToken tell apart.
SomeResponses ==
    {r \in Responses : r.status \in {200, 401, 500} /\ ~r.cl0 /\ r.text # "down"}
SomeTokenResponses ==
    {r \in TokenResponses : r.status \in {200, 401, 500} /\ r.text # "down"}
\* An expires_in with which the token stored is valid for a while.
SomeExpiresIn == {e \in ExpiresInValues : e * 1000 > 2 * BUFFER_TIME_MS}

\* Connections are created and used, each by callers of its own or shared.
NextConns ==
    \/ \E c \in Conns, cfg \in TwoInputs : Connect(c, cfg)
    \/ \E p \in Procs, c \in Conns :
          Constructed(c) /\ CreateCredentialsRequest(p, c)
    \/ \E p \in Procs, e \in SomeExpiresIn : TokenOk(p, e)
    \/ \E p \in Procs, r \in SomeTokenResponses : TokenFail(p, r)
    \/ \E p \in Procs, r \in SomeResponses : ApiOk1(p, r)
    \/ \E p \in Procs, r \in SomeResponses : ApiAuthFail1(p, r)
    \/ \E p \in Procs, r \in SomeResponses : ApiError1(p, r)
    \/ \E p \in Procs, r \in SomeResponses : ApiOk2(p, r)
    \/ \E p \in Procs, r \in SomeResponses : ApiFail2(p, r)
    \/ \E p \in Procs : Settle(p)
    \/ Advance

SpecConns == InitConnect /\ [][NextConns]_vars

\* The batch sizes at the cap and above it.
CapSizes == {MAX_REQUESTS, MAX_REQUESTS + 1}

\* The HTTP exchange call p waits for yields its response.
Responds(p) ==
    \/ \E e \in SomeExpiresIn : TokenOk(p, e)
    \/ \E r \in SomeTokenResponses : TokenFail(p, r)
    \/ \E r \in SomeResponses : ApiOk1(p, r)
    \/ \E r \in SomeResponses : ApiAuthFail1(p, r)
    \/ \E r \in SomeResponses : ApiError1(p, r)
    \/ \E r \in SomeResponses : ApiOk2(p, r)
    \/ \E r \in SomeResponses : ApiFail2(p, r)
    \/ \E r \in SomeResponses : CheckOk(p, r)
    \/ \E r \in SomeResponses : CheckFail(p, r)

\* Authenticated, unauthenticated and locally rejected operations issued
\* without awaiting one another, at one instant of the clock: a token is
\* acquired when the cache is empty or was invalidated.
NextLive ==
    \/ \E p \in Procs, c \in SharedConns : CreateCredentialsRequest(p, c)
    \/ \E p \in Procs, c \in SharedConns, n \in CapSizes :
          GenerateVerificationLinksBatch(p, c, n)
    \/ \E p \in Procs, c \in SharedConns : CheckVerificationStatus(p, c)
    \/ \E p \in Procs : Responds(p)
    \/ \E p \in Procs : Settle(p)

\* Every HTTP exchange eventually yields a response, and a settled promise
\* resumes the code awaiting it.
Fairness ==
    \A p \in Procs : WF_vars(Responds(p)) /\ WF_vars(Settle(p))

SpecLive == Init /\ [][NextLive]_vars /\ Fairness

\* ------------------------------------------------------------ properties
Started(p) == pc[p] # "idle"
Done(p) == pc[p] = "done"

\* The operation of p got a 401/403 first and then the retry response r2ok
\* says: a success (TRUE) or another 401/403 (FALSE).
Retried(p, r2ok) ==
    /\ Len(resps[p]) = 2
    /\ IsAuthStatus(resps[p][1].status)
    /\ IF r2ok THEN Ok(resps[p][2].status) ELSE IsAuthStatus(resps[p][2].status)

\* C1: in a history of operations issued one after the other, all before
\* the effective expiry of the first token acquired, with no failed token
\* exchange and no 401/403 API response, the token endpoint is invoked at
\* most once.
C1_TokenEndpointAtMostOnce ==
    \A c \in Conns : hist[c].calls <= 1

\* C2: an operation whose first API response is 401/403 and whose retry
\* response is a success settles with a result; it cleared the cache once,
\* called ensureToken twice and sent two API requests, the second with the
\* token its second ensureToken call acquired.
C2_RetrySuccessObserved ==
    \A p \in Procs :
        (Done(p) /\ Retried(p, TRUE)) =>
            /\ outcome[p].kind = "result"
            /\ nClear[p] = 1
            /\ Len(hits[p]) = 2
            /\ Len(sent[p]) = 2
            /\ acq[p] # <<>>
            /\ sent[p][2] = acq[p][Len(acq[p])]

\* C3: once an operation has received 401/403 for the request and for the
\* retry it has settled with UnauthorizedError, having sent two API
\* requests and no token exchange of its own is pending or beyond two.
C3_DoubleAuthFailure ==
    \A p \in Procs :
        Retried(p, FALSE) =>
            /\ Done(p)
            /\ outcome[p] = UnauthorizedError
            /\ Len(sent[p]) = 2
            /\ nTokReq[p] <= 2
            /\ Len(acq[p]) = nTokReq[p]

C3_Witness ==
    \E p \in Procs : Retried(p, FALSE) /\ outcome[p] = UnauthorizedError

\* C4: an operation sends at most two API requests and starts at most two
\* token exchanges, and a second API request only after a first response
\* of 401 or 403.
C4_AtMostOneRetry ==
    \A p \in Procs :
        /\ Len(sent[p]) <= 2
        /\ nTokReq[p] <= 2
        /\ Len(sent[p]) = 2 =>
              (resps[p] # <<>> /\ IsAuthStatus(resps[p][1].status))

C4_Witness ==
    \E p \in Procs : Done(p) /\ Len(sent[p]) = 2 /\ nTokReq[p] = 2

\* C5: the first ensureToken call of an operation is served from the cache
\* if and only if a token is cached and now < obtainedAt + (expires_in - 60 s).
C5_ValidIffBeforeEffectiveExpiry ==
    \A p \in Procs : Started(p) => (hits[p][1] <=> fresh0[p])

\* C6: an ensureToken call is served from the cache only while
\* now < obtainedAt + (expires_in - 60 s) of the cached token.
C6_NoReusePastExpiry ==
    \A p \in Procs :
        \A k \in DOMAIN hits[p] : hits[p][k] => (k = 1 /\ fresh0[p])

C6_Witness ==
    \E p \in Procs :
        /\ pc[p] = "fetch1"
        /\ hits[p] = <<TRUE>>
        /\ now > tokenMeta[conn[p]].obtainedAt

\* C7: an operation issued with no cached token, or with one at or past its
\* effective expiry, goes to the token endpoint, and the API request it
\* then sends carries the token that exchange returned.
C7_FreshAcquisitionBeforeRequest ==
    \A p \in Procs :
        (Started(p) /\ ~fresh0[p]) =>
            /\ ~hits[p][1]
            /\ sent[p] # <<>> =>
                  /\ acq[p] # <<>>
                  /\ sent[p][1] = acq[p][1]
                  /\ sent[p][1] # cached0[p]

C7_Witness ==
    \E p \in Procs :
        /\ cached0[p] # NULL
        /\ ~fresh0[p]
        /\ pc[p] = "fetch1"
        /\ sent[p] = acq[p]

\* C8: an ensureToken call made while the token the previous call returned
\* is cached and before its effective expiry returns that same token and
\* does not go to the token endpoint.
C8_TwoCallsSameToken ==
    \A p \in Procs :
        (Started(p) /\ cached0[p] # NULL /\ fresh0[p]) =>
            /\ pc[p] # "token1"
            /\ sent[p] # <<>> => sent[p][1] = cached0[p]

\* C9: the result of a successful retry is that of a first-attempt
\* success: empty for a 204 or a zero content-length, else the parsed body.
C9_RetryResultAsFirstAttempt ==
    \A p \in Procs :
        (Done(p) /\ Retried(p, TRUE)) =>
            outcome[p] = FirstAttemptResult(resps[p][2])

\* C10: createCredentialsRequest whose last response is a 204 settles with
\* an empty result.
C10_NoContentResolvesEmpty ==
    \A p \in Procs :
        (/\ Done(p)
         /\ op[p] = "createCredentialsRequest"
         /\ resps[p] # <<>>
         /\ resps[p][Len(resps[p])].status = 204) =>
            outcome[p] = Result("empty")

\* A non-success status other than 401 and 403.
OtherFailure(r) == ~Ok(r.status) /\ ~IsAuthStatus(r.status)

\* C11: an operation whose first API response is a non-success status
\* other than 401/403 has settled with the APIError of that status and body
\* text, having sent one API request, cleared nothing and started no token
\* exchange beyond those that returned; the step that receives the
\* response changes neither the cached token nor its expiry and sends and
\* posts nothing.
C11_FirstFailureImmediate ==
    /\ [](\A p \in Procs :
            (resps[p] # <<>> /\ OtherFailure(resps[p][1])) =>
                /\ Done(p)
                /\ outcome[p] = APIErrorWith(API_REQUEST_FAILED,
                                             resps[p][1].text, resps[p][1].status)
                /\ Len(resps[p]) = 1
                /\ Len(sent[p]) = 1
                /\ nClear[p] = 0
                /\ nTokReq[p] = Len(acq[p]))
    /\ [][\A p \in Procs :
            (resps[p] = <<>> /\ resps'[p] # <<>> /\ OtherFailure(resps'[p][1])) =>
                UNCHANGED <<accessToken, tokenExpiresAt, sent, nTokReq>>]_vars

C11_Witness ==
    \E p \in Procs :
        /\ Done(p)
        /\ hits[p] = <<TRUE>>
        /\ Len(resps[p]) = 1
        /\ resps[p][1].status = 500
        /\ outcome[p].statusCode = 500
        /\ accessToken[conn[p]] = cached0[p]

\* C12: an operation whose first API response is 401/403 and whose retry
\* response is a non-success status other than 401/403 has settled with the
\* APIError of the retry response's status and body text, having sent two
\* API requests and with no token exchange pending.
C12_RetryFailureReported ==
    \A p \in Procs :
        (/\ Len(resps[p]) = 2
         /\ IsAuthStatus(resps[p][1].status)
         /\ OtherFailure(resps[p][2])) =>
            /\ Done(p)
            /\ outcome[p] = APIErrorWith(API_REQUEST_FAILED,
                                         resps[p][2].text, resps[p][2].status)
            /\ Len(sent[p]) = 2
            /\ nTokReq[p] = Len(acq[p])

C12_Witness ==
    \E p \in Procs :
        /\ Len(resps[p]) = 2
        /\ resps[p][1].status = 403
        /\ resps[p][2].status = 500
        /\ outcome[p].statusCode = 500
        /\ outcome[p].message = <<API_REQUEST_FAILED, "down">>

\* C13: the k-th token response of an operation, if 401/403, has settled it
\* with the UnauthorizedError of invalid client credentials; if another
\* non-success status, with the APIError of that status and body text; if
\* a success, the token was stored and the API request sent with it.
C13_TokenResponseOutcome ==
    \A p \in Procs :
        \A k \in DOMAIN tokResps[p] :
            LET r == tokResps[p][k]
            IN /\ IsAuthStatus(r.status) =>
                    Done(p) /\ outcome[p] = InvalidClientCredentials
               /\ OtherFailure(r) =>
                    /\ Done(p)
                    /\ outcome[p] = APIErrorWith(FAILED_TO_OBTAIN_TOKEN,
                                                 r.text, r.status)
               /\ Ok(r.status) =>
                    /\ Len(acq[p]) >= k
                    /\ LET i == IF hits[p][1] THEN k + 1 ELSE k
                       IN Len(sent[p]) >= i /\ sent[p][i] = acq[p][k]
                    /\ outcome[p].message # <<FAILED_TO_OBTAIN_TOKEN, r.text>>
                    /\ k = Len(tokResps[p]) =>
                          outcome[p] # InvalidClientCredentials

C13_Witness ==
    \E p \in Procs :
        /\ Len(tokResps[p]) = 2
        /\ Ok(tokResps[p][1].status)
        /\ tokResps[p][2].status = 401
        /\ outcome[p] = InvalidClientCredentials

\* C14: an operation whose token exchange at the start failed has settled
\* with the error of that exchange, after exactly one token exchange and
\* with no API request sent.
C14_InitialAcquisitionFailure ==
    \A p \in Procs :
        (hits[p] = <<FALSE>> /\ tokResps[p] # <<>> /\ ~Ok(tokResps[p][1].status)) =>
            /\ Done(p)
            /\ outcome[p].kind \in {"UnauthorizedError", "APIError"}
            /\ outcome[p].message[1] \in
                   {INVALID_CLIENT_CREDENTIALS, FAILED_TO_OBTAIN_TOKEN}
            /\ nTokReq[p] = 1
            /\ Len(tokResps[p]) = 1
            /\ sent[p] = <<>>
            /\ resps[p] = <<>>

C14_Witness ==
    \E p \in Procs :
        /\ Done(p)
        /\ hits[p] = <<FALSE>>
        /\ tokResps[p] # <<>>
        /\ tokResps[p][1].status = 500
        /\ nTokReq[p] = 1
        /\ sent[p] = <<>>

\* C20: the step in which an operation receives a first response of 401/403
\* leaves the connection's cache empty; an operation issued while the cache
\* is empty after a token was issued misses the cache, posts to the token
\* endpoint itself and sends its request with the token it acquired, which
\* is none of the tokens issued before.
C20_ClearingVisibleToOthers ==
    /\ [][\A p \in Procs :
            (/\ resps[p] = <<>>
             /\ resps'[p] # <<>>
             /\ IsAuthStatus(resps'[p][1].status)) =>
                /\ accessToken'[conn[p]] = NULL
                /\ tokenExpiresAt'[conn[p]] = NULL]_vars
    /\ [](\A p \in Procs :
            (Started(p) /\ cleared0[p] > 0) =>
                /\ cached0[p] = NULL
                /\ ~hits[p][1]
                /\ nTokReq[p] >= 1
                /\ sent[p] # <<>> =>
                      /\ acq[p] # <<>>
                      /\ sent[p][1] = acq[p][1]
                      /\ sent[p][1] > cleared0[p])

C20_Witness ==
    \E p, q \in Procs :
        /\ p # q
        /\ conn[p] = conn[q]
        /\ pc[q] = "token2"
        /\ cleared0[p] > 0
        /\ pc[p] = "fetch1"
        /\ sent[p][1] > cleared0[p]

\* The step in which caller p calls a public method or receives a response.
ActsIn(p) == pc'[p] # pc[p] /\ pc'[p] # "idle"

\* Every API request of p carries a token as its Authorization header.
Authenticated(p) ==
    /\ hits[p] # <<>>
    /\ \A i \in DOMAIN sent[p] : sent[p][i] > NULL

\* C15: an operation checkVerificationStatus has called ensureToken never,
\* posted to the token endpoint never, cleared nothing and sent its one
\* request without Authorization header; none of its steps changes the
\* cached token or its expiry.
C15_CheckBypassesTokenManager ==
    /\ [](\A p \in Procs :
            op[p] = "checkVerificationStatus" =>
                /\ hits[p] = <<>>
                /\ nTokReq[p] = 0
                /\ tokResps[p] = <<>>
                /\ acq[p] = <<>>
                /\ nClear[p] = 0
                /\ sent[p] = <<NoAuthorization>>)
    /\ [][\A p \in Procs :
            (op'[p] = "checkVerificationStatus" /\ ActsIn(p)) =>
                UNCHANGED <<accessToken, tokenExpiresAt>>]_vars

C15_Witness ==
    \E p \in Procs :
        /\ op[p] = "checkVerificationStatus"
        /\ Done(p)
        /\ resps[p][1].status = 401
        /\ accessToken[conn[p]] # NULL
        /\ accessToken[conn[p]] = cached0[p]
        /\ sent[p] = <<NoAuthorization>>

\* C16: checkVerificationStatus that received a 404 has settled with the
\* APIError of status 404 and message 'Token not found or expired'; one
\* that received another non-success status, with the APIError of that
\* status whose message is the generic one with the body text.
C16_NotFoundDistinguished ==
    \A p \in Procs :
        (op[p] = "checkVerificationStatus" /\ resps[p] # <<>>) =>
            LET r == resps[p][1]
            IN /\ r.status = 404 =>
                    /\ Done(p)
                    /\ outcome[p] = NewAPIError(<<TOKEN_NOT_FOUND>>, 404)
               /\ (~Ok(r.status) /\ r.status # 404) =>
                    /\ Done(p)
                    /\ outcome[p] = APIErrorWith(FAILED_TO_CHECK_VERIFICATION,
                                                 r.text, r.status)
                    /\ outcome[p].message[1] # TOKEN_NOT_FOUND

C16_Witness ==
    \E p \in Procs :
        /\ op[p] = "checkVerificationStatus"
        /\ Done(p)
        /\ resps[p][1].status = 404
        /\ outcome[p].message = <<TOKEN_NOT_FOUND>>

\* C17: generateVerificationLinksBatch with more than 100 items has settled
\* with the local error of the cap, with ensureToken not called, nothing
\* posted and nothing sent, in a step that leaves the cache as it was; with
\* 100 items or fewer it called ensureToken and its requests go to the
\* batch endpoint with a token.
C17_BatchCap ==
    /\ [](\A p \in Procs :
            op[p] = "generateVerificationLinksBatch" =>
                IF arg[p].n > MAX_REQUESTS
                THEN /\ Done(p)
                     /\ outcome[p] = LocalError(MAX_BATCH_REQUESTS)
                     /\ hits[p] = <<>>
                     /\ nTokReq[p] = 0
                     /\ sent[p] = <<>>
                ELSE /\ Authenticated(p)
                     /\ url[p] = Url("VERIFICATION_GENERATE_LINKS_BATCH")
                     /\ outcome[p].kind # "Error")
    /\ [][\A p \in Procs :
            (/\ op'[p] = "generateVerificationLinksBatch"
             /\ arg'[p].n > MAX_REQUESTS
             /\ ActsIn(p)) =>
                UNCHANGED <<accessToken, tokenExpiresAt>>]_vars

C17_Witness ==
    \E p \in Procs :
        /\ op[p] = "generateVerificationLinksBatch"
        /\ arg[p].n = MAX_REQUESTS + 1
        /\ outcome[p] = LocalError(MAX_BATCH_REQUESTS)
        /\ accessToken[conn[p]] # NULL
        /\ accessToken[conn[p]] = cached0[p]
        /\ sent[p] = <<>>

\* Exactly one of q and partyId is supplied: present and not empty.
OneSupplied(a) == Truthy(a.q) # Truthy(a.partyId)
\* The one supplied.
Supplied(a) == IF Truthy(a.q) THEN a.q[1] ELSE a.partyId[1]

\* C18: resolveCredentials with neither q nor partyId, or with both, has
\* settled with a local error, with ensureToken not called, nothing posted
\* and nothing sent, in a step that leaves the cache as it was.
C18_ResolveNeitherOrBoth ==
    /\ [](\A p \in Procs :
            (op[p] = "resolveCredentials" /\ ~OneSupplied(arg[p])) =>
                /\ Done(p)
                /\ outcome[p].kind = "Error"
                /\ hits[p] = <<>>
                /\ nTokReq[p] = 0
                /\ sent[p] = <<>>)
    /\ [][\A p \in Procs :
            (/\ op'[p] = "resolveCredentials"
             /\ ~OneSupplied(arg'[p])
             /\ ActsIn(p)) =>
                UNCHANGED <<accessToken, tokenExpiresAt>>]_vars

C18_Witness ==
    \E p \in Procs :
        /\ op[p] = "resolveCredentials"
        /\ Truthy(arg[p].q)
        /\ Truthy(arg[p].partyId)
        /\ outcome[p].kind = "Error"
        /\ accessToken[conn[p]] # NULL
        /\ sent[p] = <<>>

\* The request of p goes to the resolve endpoint with the one query
\* parameter of its mode.
RoutedByMode(p) ==
    /\ Authenticated(p)
    /\ url[p].path = "RESOLVE_CREDENTIALS"
    /\ Len(url[p].params) = 1
    /\ url[p].params[1][1] = IF Truthy(arg[p].q) THEN "q" ELSE "partyId"

\* C19 as stated: resolveCredentials with exactly one of q and partyId
\* supplied called ensureToken and its request goes to the resolve
\* endpoint with the one query parameter of its mode.
C19_OneSuppliedRoutes ==
    \A p \in Procs :
        (op[p] = "resolveCredentials" /\ OneSupplied(arg[p])) => RoutedByMode(p)

\* C19, amended: resolveCredentials with exactly one of q and partyId
\* supplied, and that one not blank, called ensureToken and its request
\* goes to the resolve endpoint with the one query parameter of its mode
\* holding the trimmed value; with a blank one it has settled with the
\* empty list and nothing was sent.
C19_OneNonBlankRoutes ==
    \A p \in Procs :
        (op[p] = "resolveCredentials" /\ OneSupplied(arg[p])) =>
            IF Trim(Supplied(arg[p])) # <<>>
            THEN /\ RoutedByMode(p)
                 /\ url[p].params[1][2] = Trim(Supplied(arg[p]))
            ELSE /\ Done(p)
                 /\ outcome[p] = Result("credentials: []")
                 /\ hits[p] = <<>>
                 /\ sent[p] = <<>>

C19_Witness ==
    \E p \in Procs :
        /\ op[p] = "resolveCredentials"
        /\ pc[p] = "fetch1"
        /\ arg[p].partyId = Some(<<" ", "a", " ">>)
        /\ url[p] = UrlWith("RESOLVE_CREDENTIALS", "partyId", <<"a">>)
        /\ sent[p] = <<accessToken[conn[p]]>>

\* p and q are operations in flight on one connection that both found no
\* valid token when issued and neither of which got a 401/403 so far.
BothMissed(p, q) ==
    /\ p # q
    /\ conn[p] = conn[q]
    /\ hits[p] = <<FALSE>>
    /\ hits[q] = <<FALSE>>

\* The greater of two token serials: the one issued later.
Later(a, b) == IF a > b THEN a ELSE b

\* C21: two operations in flight on one connection that both missed the
\* cache posted to the token endpoint once each; once both exchanges have
\* returned, each sent its API request with its own token, the two tokens
\* differ, and the cache holds the token issued later with the expiry
\* computed from that token's response; the step in which an exchange
\* returns a token stores that token and an expiry in the cache.
C21_ConcurrentAcquisitions ==
    /\ [](\A p, q \in Procs :
               BothMissed(p, q) =>
                   /\ nTokReq[p] = 1
                   /\ nTokReq[q] = 1
                   /\ (acq[p] # <<>> /\ acq[q] # <<>>) =>
                         /\ acq[p][1] # acq[q][1]
                         /\ sent[p] = acq[p]
                         /\ sent[q] = acq[q]
                         /\ accessToken[conn[p]] = Later(acq[p][1], acq[q][1])
                         /\ tokenExpiresAt[conn[p]] =
                               ExpiresAt(tokenMeta[conn[p]].obtainedAt,
                                         tokenMeta[conn[p]].expires_in))
    /\ [][\A p \in Procs :
            Len(acq'[p]) > Len(acq[p]) =>
                /\ accessToken'[conn[p]] = acq'[p][Len(acq'[p])]
                /\ tokenExpiresAt'[conn[p]] # NULL]_vars

C21_Witness ==
    \E p, q \in Procs :
        /\ BothMissed(p, q)
        /\ cached0[p] = NULL /\ cleared0[p] = 0
        /\ cached0[q] = NULL /\ cleared0[q] = 0
        /\ pc[p] = "fetch1"
        /\ pc[q] = "fetch1"
        /\ acq[p] = <<1>>
        /\ acq[q] = <<2>>
        /\ accessToken[conn[p]] = 2

\* The step in which p receives a first response of 401 or 403.
AuthFailArrives(p) ==
    /\ resps[p] = <<>>
    /\ resps'[p] # <<>>
    /\ IsAuthStatus(resps'[p][1].status)

\* C22: the step in which an operation receives a first response of 401/403
\* empties the token and the expiry of its connection's cache whatever
\* they were, and the ensureToken call the operation makes next misses
\* and posts to the token endpoint.
C22_InvalidationUnconditional ==
    [][\A p \in Procs :
        AuthFailArrives(p) =>
            /\ accessToken'[conn[p]] = NULL
            /\ tokenExpiresAt'[conn[p]] = NULL
            /\ nClear'[p] = nClear[p] + 1
            /\ hits'[p] = Append(hits[p], FALSE)
            /\ nTokReq'[p] = nTokReq[p] + 1
            /\ pc'[p] = "token2"]_vars

\* p cleared a token that q had stored after p sent its request.
C22_Witness ==
    \E p, q \in Procs :
        /\ p # q
        /\ conn[p] = conn[q]
        /\ pc[p] = "token2"
        /\ nClear[p] = 1
        /\ nClear[q] = 0
        /\ acq[q] # <<>>
        /\ acq[q][1] > sent[p][1]
        /\ accessToken[conn[p]] = NULL
        /\ tokenExpiresAt[conn[p]] = NULL

\* C23: an operation that sent a second API request had cleared the cache
\* once and called ensureToken a second time, that call missed the cache
\* and posted to the token endpoint, and the second request carries the
\* token that exchange returned, which is not the one of the first request;
\* the step of the second ensureToken call leaves the cache empty and
\* starts a token exchange.
C23_RetryWithFreshToken ==
    /\ [](\A p \in Procs :
               /\ Len(hits[p]) = 2 => (~hits[p][2] /\ nClear[p] = 1)
               /\ Len(sent[p]) = 2 =>
                     /\ Len(hits[p]) = 2
                     /\ acq[p] # <<>>
                     /\ Len(tokResps[p]) = Len(acq[p])
                     /\ sent[p][2] = acq[p][Len(acq[p])]
                     /\ sent[p][2] > sent[p][1])
    /\ [][\A p \in Procs :
            (Len(hits[p]) = 1 /\ Len(hits'[p]) = 2) =>
                /\ accessToken'[conn[p]] = NULL
                /\ nTokReq'[p] = nTokReq[p] + 1]_vars

\* The retry of p carries a token issued after the one q stored while the
\* first request of p was under way.
C23_Witness ==
    \E p, q \in Procs :
        /\ p # q
        /\ conn[p] = conn[q]
        /\ pc[p] = "fetch2"
        /\ hits[p] = <<FALSE, FALSE>>
        /\ acq[q] # <<>>
        /\ sent[p][1] < acq[q][1]
        /\ acq[q][1] < sent[p][2]
        /\ accessToken[conn[p]] = sent[p][2]

\* The pair of URLs the network selector of a configuration stands for:
\* the devnet pair for 'devnet' and 'dev', the mainnet pair for every other
\* value and for none.
PairOf(cfg) ==
    IF Given(cfg.network) /\ cfg.network[1] \in {"devnet", "dev"}
    THEN [baseUrl |-> BASE_URLS.devnet, tokenEndpoint |-> TOKEN_ENDPOINTS.devnet]
    ELSE [baseUrl |-> BASE_URLS.mainnet, tokenEndpoint |-> TOKEN_ENDPOINTS.mainnet]

\* C24: the base URL of a connection is the baseUrl of the configuration
\* it was created with if that has one (present and not empty), else the
\* base URL of the pair its network selector stands for; the same for the
\* token endpoint.
C24_UrlsResolved ==
    \A c \in Conns :
        Constructed(c) =>
            LET cfg == connectArg[c]
            IN /\ config[c].baseUrl =
                    IF Given(cfg.baseUrl) THEN cfg.baseUrl[1]
                    ELSE PairOf(cfg).baseUrl
               /\ config[c].tokenEndpoint =
                    IF Given(cfg.tokenEndpoint) THEN cfg.tokenEndpoint[1]
                    ELSE PairOf(cfg).tokenEndpoint

C24_Witness ==
    \E c, d \in Conns :
        /\ connectArg[c].network = <<"dev">>
        /\ connectArg[c].baseUrl = <<"https://base">>
        /\ config[c].baseUrl = "https://base"
        /\ config[c].tokenEndpoint = TOKEN_ENDPOINTS.devnet
        /\ connectArg[d].network = <<"test">>
        /\ config[d].baseUrl = BASE_URLS.mainnet
        /\ config[d].tokenEndpoint = TOKEN_ENDPOINTS.mainnet

\* The last HTTP exchange of call p was a token exchange that failed: the
\* call ends there.
TokenFailedLast(p) ==
    /\ tokResps[p] # <<>>
    /\ ~Ok(tokResps[p][Len(tokResps[p])].status)

\* The last HTTP exchange of call p ended with a non-success status.
LastExchangeFailed(p) ==
    \/ TokenFailedLast(p)
    \/ /\ resps[p] # <<>>
       /\ ~Ok(resps[p][Len(resps[p])].status)

\* The status of that exchange.
LastStatus(p) ==
    IF TokenFailedLast(p) THEN tokResps[p][Len(tokResps[p])].status
    ELSE resps[p][Len(resps[p])].status

\* C26: a call whose last HTTP exchange (token or API) ended with a
\* non-success status has ended with an UnauthorizedError or with an
\* APIError carrying that status; a call that returned a result had no
\* failed token exchange last and its last API response was successful;
\* the step that ends a call gives it a result or an error.
C26_NoErrorSwallowed ==
    /\ [](\A p \in Procs :
               /\ (Done(p) /\ LastExchangeFailed(p)) =>
                     /\ outcome[p] # NoOutcome
                     /\ \/ outcome[p].kind = "UnauthorizedError"
                        \/ /\ outcome[p].kind = "APIError"
                           /\ outcome[p].statusCode = LastStatus(p)
               /\ (Done(p) /\ outcome[p].kind = "result") =>
                     /\ ~TokenFailedLast(p)
                     /\ resps[p] # <<>>
                     /\ Ok(resps[p][Len(resps[p])].status)
                     /\ Len(resps[p]) = Len(sent[p]))
    /\ [][\A p \in Procs :
            (~Done(p) /\ pc'[p] = "done") => outcome'[p] # NoOutcome]_vars

\* A call whose first request was rejected, whose second token exchange
\* succeeded and whose retry failed with a server error.
C26_Witness ==
    \E p \in Procs :
        /\ Done(p)
        /\ Len(tokResps[p]) = 2
        /\ Ok(tokResps[p][2].status)
        /\ Len(resps[p]) = 2
        /\ resps[p][2].status = 500
        /\ outcome[p].kind = "APIError"
        /\ outcome[p].statusCode = 500

\* C30: in every reachable state the token and the expiry of a connection
\* are both absent or both present, and when present the token is the one
\* of the latest acquisition stored and the expiry the one computed from
\* that acquisition's response; a step that changes the token clears both
\* or stores both from one response.
C30_TokenAndExpiryTogether ==
    /\ [](\A c \in Conns :
               /\ accessToken[c] = NULL <=> tokenExpiresAt[c] = NULL
               /\ accessToken[c] = NULL <=> tokenMeta[c] = NoMeta
               /\ accessToken[c] # NULL =>
                     /\ accessToken[c] = nIssued[c]
                     /\ tokenExpiresAt[c] =
                           ExpiresAt(tokenMeta[c].obtainedAt, tokenMeta[c].expires_in))
    /\ [][\A c \in Conns :
            accessToken'[c] # accessToken[c] =>
                \/ accessToken'[c] = NULL /\ tokenExpiresAt'[c] = NULL
                \/ /\ accessToken'[c] = nIssued'[c]
                   /\ tokenExpiresAt'[c] =
                         ExpiresAt(now, tokenMeta'[c].expires_in)]_vars

\* Two acquisitions on one connection stored one after the other, the
\* second with the shorter lifetime.
C30_Witness ==
    \E p, q \in Procs :
        /\ conn[p] = conn[q]
        /\ acq[p] = <<1>>
        /\ acq[q] = <<2>>
        /\ tokResps[p] # <<>>
        /\ accessToken[conn[q]] = 2
        /\ tokenMeta[conn[q]].expires_in = 120
        /\ tokenExpiresAt[conn[q]] = ExpiresAt(now, 120)

\* The HTTP exchanges call p has started: token and API.
TokenExchanges(p) == nTokReq[p]
ApiExchanges(p) == Len(sent[p])

\* C29: every call that was started ends (with a result or an error)
\* whatever the other calls do; by then an authenticated call has made at
\* most two token exchanges and two API exchanges, an unauthenticated one
\* one exchange and a locally rejected one none.
C29_OperationsTerminate ==
    /\ \A p \in Procs : Started(p) ~> (Done(p) /\ outcome[p] # NoOutcome)
    /\ [](\A p \in Procs :
            /\ TokenExchanges(p) <= 2
            /\ ApiExchanges(p) <= 2
            /\ op[p] = "checkVerificationStatus" =>
                  (TokenExchanges(p) = 0 /\ ApiExchanges(p) <= 1)
            /\ outcome[p].kind = "Error" =>
                  (TokenExchanges(p) = 0 /\ ApiExchanges(p) = 0))

\* A call that ends after four exchanges while an unauthenticated call is
\* waiting for its one response.
C29_Witness ==
    \E p, q \in Procs :
        /\ Done(p)
        /\ TokenExchanges(p) = 2
        /\ ApiExchanges(p) = 2
        /\ Len(resps[p]) = 2
        /\ op[q] = "checkVerificationStatus"
        /\ pc[q] = "check"
        /\ ApiExchanges(q) = 1

\* The step in which connection c is created.
Connects(c) == ~Constructed(c) /\ config'[c] # NoConfig

C27_CacheOwnedByConnection ==
    /\ [][\A c \in Conns :
            (accessToken'[c] # accessToken[c]
               \/ tokenExpiresAt'[c] # tokenExpiresAt[c]) =>
                \/ Connects(c)
                \/ \E p \in Procs : conn[p] = c /\ pc[p] # "idle" /\ ActsIn(p)]_vars
    /\ [](\A p \in Procs :
            (Started(p) /\ hits[p] # <<>> /\ hits[p][1]) =>
                /\ cached0[p] # NULL
                /\ sent[p][1] = cached0[p])

\* Two connections with the same credentials, one holding a token and the
\* other none while an operation on it waits for the token endpoint.
C27_Witness ==
    \E p \in Procs, c, d \in Conns :
        /\ c # d
        /\ Constructed(c)
        /\ Constructed(d)
        /\ config[c].clientId = config[d].clientId
        /\ config[c].clientSecret = config[d].clientSecret
        /\ accessToken[c] # NULL
        /\ IsValid(accessToken[c], tokenExpiresAt[c], now)
        /\ accessToken[d] = NULL
        /\ conn[p] = d
        /\ pc[p] = "token1"

\* C28: once a connection is created no step changes its client id, client
\* secret, network, base URL, token endpoint or API version, which are
\* those connect computed from its configuration.
C28_ConfigReadOnly ==
    /\ [][\A c \in Conns : Constructed(c) => config'[c] = config[c]]_vars
    /\ [](\A c \in Conns :
            Constructed(c) => config[c] = ConnectResult(connectArg[c]))

C28_Witness ==
    \E p \in Procs :
        /\ config[conn[p]].network = "devnet"
        /\ config[conn[p]].tokenEndpoint = TOKEN_ENDPOINTS.devnet
        /\ Len(tokResps[p]) = 2
        /\ ~Ok(tokResps[p][2].status)
        /\ nClear[p] = 1
        /\ Done(p)

\* The token endpoint answers call p in this step, with a failure or with
\* a success.
TokenFails(p) ==
    /\ Len(tokResps'[p]) = Len(tokResps[p]) + 1
    /\ ~Ok(tokResps'[p][Len(tokResps'[p])].status)
TokenSucceeds(p) ==
    /\ Len(tokResps'[p]) = Len(tokResps[p]) + 1
    /\ Ok(tokResps'[p][Len(tokResps'[p])].status)

\* C31: the step in which a token exchange fails leaves the token and the
\* expiry of every connection as they were and ends the call; a step that
\* stores a token or an expiry is one in which a token exchange of a call
\* on that connection succeeds; a call that found the cache empty or
\* invalid posts to the token endpoint without clearing what is stored.
C31_FailedAcquisitionKeepsCache ==
    /\ [][\A p \in Procs :
            TokenFails(p) =>
                /\ UNCHANGED <<accessToken, tokenExpiresAt>>
                /\ pc'[p] = "done"]_vars
    /\ [][\A c \in Conns :
            \/ accessToken'[c] # accessToken[c] /\ accessToken'[c] # NULL
            \/ tokenExpiresAt'[c] # tokenExpiresAt[c] /\ tokenExpiresAt'[c] # NULL
            => \E p \in Procs : conn[p] = c /\ TokenSucceeds(p)]_vars
    /\ [][\A p \in Procs :
            (pc[p] = "idle" /\ pc'[p] = "token1") =>
                UNCHANGED <<accessToken, tokenExpiresAt>>]_vars

\* A call that found a stored token no longer valid and whose token
\* exchange failed: the token is still stored and still invalid.
C31_Witness ==
    \E p \in Procs :
        /\ Done(p)
        /\ hits[p] = <<FALSE>>
        /\ Len(tokResps[p]) = 1
        /\ ~Ok(tokResps[p][1].status)
        /\ cached0[p] # NULL
        /\ accessToken[conn[p]] = cached0[p]
        /\ tokenExpiresAt[conn[p]] # NULL
        /\ ~IsValid(accessToken[conn[p]], tokenExpiresAt[conn[p]], now)

\* Call p cleared the cache after a 401/403 and its second token exchange
\* failed.
ReacquisitionFailed(p) ==
    /\ nClear[p] = 1
    /\ Len(hits[p]) = 2
    /\ TokenFailedLast(p)

DoubleRejected(p) ==
    /\ Done(p)
    /\ Len(resps[p]) = 2
    /\ IsAuthStatus(resps[p][1].status)
    /\ IsAuthStatus(resps[p][2].status)
    /\ outcome[p] = UnauthorizedError

\* C33: with one call at a time, when a call has ended with
\* UnauthorizedError after two rejections the cache was cleared once and
\* holds the token acquired for the retry with its expiry, and as long as
\* that expiry has not passed ensureToken's test finds the token valid, so
\* that a call issued then is served from the cache.
C33_RetryTokenKeptAndReused ==
    \A p \in Procs :
        DoubleRejected(p) =>
            /\ nClear[p] = 1
            /\ accessToken[conn[p]] = sent[p][2]
            /\ tokenExpiresAt[conn[p]] # NULL
            /\ now < tokenExpiresAt[conn[p]] =>
                  IsValid(accessToken[conn[p]], tokenExpiresAt[conn[p]], now)

\* The acquisition of call p that its i-th ensureToken call performed.
AcquisitionOf(p, i) == IF hits[p][1] THEN i - 1 ELSE i

\* C34: every API request of a call whose ensureToken call was not served
\* from the cache carries the token that call's own token exchange
\* returned, whatever other calls stored in the meantime; the step in
\* which the token endpoint answers a call sends that call's request with
\* the token just returned.
C34_OwnTokenSent ==
    /\ [](\A p \in Procs : \A i \in DOMAIN sent[p] :
            ~hits[p][i] =>
                /\ AcquisitionOf(p, i) \in DOMAIN acq[p]
                /\ sent[p][i] = acq[p][AcquisitionOf(p, i)])
    /\ [][\A p \in Procs :
            TokenSucceeds(p) =>
                /\ Len(acq'[p]) = Len(acq[p]) + 1
                /\ acq'[p][Len(acq'[p])] = nIssued'[conn[p]]
                /\ sent'[p] = Append(sent[p], nIssued'[conn[p]])]_vars

\* Two calls that both missed the cache: the token exchange of q returned
\* first and its token was stored before the one of p returned; p sent its
\* own token.
C34_Witness ==
    \E p, q \in Procs :
        /\ BothMissed(p, q)
        /\ acq[q] = <<1>>
        /\ acq[p] = <<2>>
        /\ sent[q] = <<1>>
        /\ sent[p] = <<2>>
        /\ pc[p] = "fetch1"
        /\ p < q

\* 1 if the condition holds, else 0.
Count(b) == IF b THEN 1 ELSE 0

\* The first API response of call p was a 401 or a 403.
FirstRejected(p) == resps[p] # <<>> /\ IsAuthStatus(resps[p][1].status)

\* C35: with one call at a time, an authenticated call that has ended made
\* one token exchange if it was issued without a token or with one past
\* its effective expiry, plus one if its first API response was a 401 or
\* a 403, and no other; the total over a sequence of calls is the sum.
C35_TokenExchangesCounted ==
    \A p \in Procs :
        (Done(p) /\ hits[p] # <<>>) =>
            /\ TokenExchanges(p) = Count(~fresh0[p]) + Count(FirstRejected(p))
            /\ Len(tokResps[p]) = TokenExchanges(p)

\* Call p was issued with a cached token before its effective expiry and
\* ended with a successful first API response.
SucceededWithValidToken(p) ==
    /\ Done(p)
    /\ hits[p] # <<>>
    /\ fresh0[p]
    /\ Len(resps[p]) = 1
    /\ Ok(resps[p][1].status)

\* The step clears the token and the expiry of connection c.
Invalidates(c) ==
    /\ accessToken[c] # NULL
    /\ accessToken'[c] = NULL
    /\ tokenExpiresAt'[c] = NULL

\* C36: with one call at a time, a call issued with a valid cached token
\* whose first API response was successful was served from the cache, made
\* no token exchange and leaves the token it found in the cache; a step
\* changes the expiry of a connection only by storing the token of a
\* successful token exchange or by invalidating the cache.
C36_UseLeavesCacheUnchanged ==
    /\ [](\A p \in Procs :
            SucceededWithValidToken(p) =>
                /\ hits[p] = <<TRUE>>
                /\ TokenExchanges(p) = 0
                /\ sent[p] = <<cached0[p]>>
                /\ accessToken[conn[p]] = cached0[p])
    /\ [][\A c \in Conns :
            tokenExpiresAt'[c] # tokenExpiresAt[c] =>
                \/ Invalidates(c)
                \/ \E p \in Procs : conn[p] = c /\ TokenSucceeds(p)]_vars

\* checkVerificationStatus of call p was answered with a 401 or a 403.
CheckRejected(p) ==
    /\ op[p] = "checkVerificationStatus"
    /\ resps[p] # <<>>
    /\ IsAuthStatus(resps[p][1].status)

\* C37: a checkVerificationStatus call answered with 401 or 403 has ended
\* with the APIError "Failed to check verification: <body>" carrying that
\* status, after one request without Authorization, no token exchange and
\* no clearing; the step in which the answer arrives leaves the token and
\* the expiry of every connection unchanged.
C37_CheckAuthFailureIsApiError ==
    /\ [](\A p \in Procs :
            CheckRejected(p) =>
                /\ Done(p)
                /\ outcome[p] = APIErrorWith(FAILED_TO_CHECK_VERIFICATION,
                                             resps[p][1].text, resps[p][1].status)
                /\ outcome[p].kind # "UnauthorizedError"
                /\ outcome[p].statusCode \in {401, 403}
                /\ Len(resps[p]) = 1
                /\ sent[p] = <<NoAuthorization>>
                /\ TokenExchanges(p) = 0
                /\ nClear[p] = 0)
    /\ [][\A p \in Procs :
            (pc[p] = "check" /\ pc'[p] = "done") =>
                UNCHANGED <<accessToken, tokenExpiresAt>>]_vars

\* A checkVerificationStatus call rejected with 403 on a connection that
\* holds a valid token: the token is still there.
C37_Witness ==
    \E p \in Procs :
        /\ CheckRejected(p)
        /\ resps[p][1].status = 403
        /\ cached0[p] # NULL
        /\ accessToken[conn[p]] = cached0[p]
        /\ IsValid(accessToken[conn[p]], tokenExpiresAt[conn[p]], now)

\* The text call p looks up: the argument of resolve or reverseResolve,
\* or the one parameter supplied to resolveCredentials.
LookedUp(p) ==
    IF op[p] = "resolve" THEN arg[p].q[1]
    ELSE IF op[p] = "reverseResolve" THEN arg[p].partyId[1]
    ELSE Supplied(arg[p])

\* Call p is a lookup whose text is empty or blank.
BlankLookup(p) ==
    /\ \/ op[p] \in {"resolve", "reverseResolve"}
       \/ op[p] = "resolveCredentials" /\ OneSupplied(arg[p])
    /\ Trim(LookedUp(p)) = <<>>

\* C38: resolve and reverseResolve called with "" or with blanks only, and
\* resolveCredentials with a blank q or partyId as its one parameter,
\* have ended with the result { credentials: [] } and no error, with
\* ensureToken not called, nothing posted to the token endpoint and no
\* request sent, in a step that leaves the cache as it was; with any
\* other text resolve and reverseResolve send a request.
C38_BlankLookupReturnsEmpty ==
    /\ [](\A p \in Procs :
            /\ BlankLookup(p) =>
                  /\ Done(p)
                  /\ outcome[p] = Result("credentials: []")
                  /\ hits[p] = <<>>
                  /\ TokenExchanges(p) = 0
                  /\ tokResps[p] = <<>>
                  /\ sent[p] = <<>>
                  /\ url[p] = Url("")
            /\ (op[p] \in {"resolve", "reverseResolve"} /\ ~BlankLookup(p)) =>
                  /\ hits[p] # <<>>
                  /\ url[p].params[1][2] = Trim(LookedUp(p)))
    /\ [][\A p \in Procs :
            (BlankLookup(p)' /\ ActsIn(p)) =>
                UNCHANGED <<accessToken, tokenExpiresAt>>]_vars

\* resolve(" ") on a connection holding a token.
C38_Witness ==
    \E p \in Procs :
        /\ op[p] = "resolve"
        /\ arg[p].q = Some(<<" ">>)
        /\ outcome[p] = Result("credentials: []")
        /\ sent[p] = <<>>
        /\ accessToken[conn[p]] # NULL
        /\ accessToken[conn[p]] = cached0[p]

TypeOK ==
    /\ now \in Nat
    /\ \A c \in Conns : accessToken[c] \in 0..nIssued[c]
    /\ \A p \in Procs : Len(sent[p]) <= 2 /\ Len(resps[p]) <= 2
    /\ \A p \in Procs : arg[p].n \in Nat /\ cleared0[p] \in 0..nIssued[conn[p]]
    /\ \A p \in Procs : Len(tokResps[p]) <= 2 /\ Len(url[p].params) <= 1
====
